---- MODULE Spec2Model ----
(***************************************************************************)
(* Model of the price extraction, price enrichment and paginated fetch     *)
(* code of data.py (PokeWallet card explorer).                             *)
(*                                                                         *)
(* JSON values are tagged records [t, v]:                                  *)
(*   "null"   None (also a key that is absent: every read is dict.get)     *)
(*   "num"    an int/float that float() converts, v its value              *)
(*   "numstr" a string float() parses, such as "2", v the parsed value     *)
(*   "str"    a non-empty string float() rejects, such as "n/a"            *)
(*   "big"    an int beyond the float range, such as 10**400               *)
(*   "dict"   a mapping, v a function from its keys to values              *)
(*   "list"   a list, v a sequence of values                               *)
(* A card is a "dict" that also carries `order`, the iteration order of    *)
(* its keys (dict insertion order / DataFrame column order).               *)
(***************************************************************************)
EXTENDS Integers, Sequences, FiniteSets, TLC

VARIABLES
    card,       \* extract_price_from_card: the argument
    result,     \* extract_price_from_card: the outcome (value returned, or raised)
    ppc,        \* extract_price_from_card: "call" before, "done" after
    df,             \* _enrich_prices_via_search: the batch passed in
    search_results, \* _enrich_prices_via_search: what search_cards returned
    enriched,       \* _enrich_prices_via_search: the batch returned
    epc,            \* _enrich_prices_via_search: "call" before, "done" after
    fpc,            \* fetch_set_cards: "fetch" (in the /sets loop), "search" (in
                    \* search_cards, called by the enrichment), "done" (returned)
    set_code,       \* fetch_set_cards: argument
    set_id,         \* fetch_set_cards: argument
    ident_idx,      \* index into identifiers of the identifier being tried
    page,           \* page of the running pagination loop
    attempt,        \* retry_api_call: attempts already made for this page
    last_exception, \* retry_api_call: an attempt for this page raised
    all_cards,      \* records accumulated for the identifier being tried
    set_info,       \* the set block of the last page fetched
    all_results,    \* search_cards: records accumulated
    requests,       \* every HTTP request issued, in order
    responses,      \* the outcomes of the requests, in order, in the
                    \* specifications whose properties read them
    returned,       \* what fetch_set_cards returned (or that it raised)
    pass,           \* 1: the call; 2: lines 175-181 applied again to its result
    first,          \* the result of pass 1 and the requests issued by then
    r_max_retries,  \* retry_api_call: argument max_retries
    r_base_delay,   \* retry_api_call: argument base_delay
    r_attempt,      \* retry_api_call: the loop variable `attempt`
    r_last_exception, \* retry_api_call: last_exception (Null: None)
    r_calls,        \* retry_api_call: the outcome of every func() call, in order
    r_sleeps,       \* retry_api_call: every time.sleep, as [after, delay]
    r_outcome,      \* retry_api_call: what it returned or raised
    rpc,            \* retry_api_call: "loop" while attempts remain, then "done"
    chat_key,       \* ai_chat: the chatbot API key is set
    chat_response,  \* ai_chat: what requests.post gave
    chat_result,    \* ai_chat: what it returned (or that it raised)
    cpc,            \* ai_chat: "call" before, "done" after
    cache,          \* st.cache_data: the entry of every cached call
    now,            \* the clock, in seconds
    c_last          \* the last cached call: what it did and what it returned

priceVars == <<card, result, ppc>>
enrichVars == <<df, search_results, enriched, epc>>
fetchVars == <<fpc, set_code, set_id, ident_idx, page, attempt, last_exception,
               all_cards, set_info, all_results, requests, responses, returned, pass,
               first>>
retryVars == <<r_max_retries, r_base_delay, r_attempt, r_last_exception,
               r_calls, r_sleeps, r_outcome, rpc>>
chatVars == <<chat_key, chat_response, chat_result, cpc>>
cacheVars == <<cache, now, c_last>>
restVars == <<retryVars, chatVars, cacheVars>>
vars == <<card, result, ppc, df, search_results, enriched, epc,
          fpc, set_code, set_id, ident_idx, page, attempt, last_exception,
          all_cards, set_info, all_results, requests, responses, returned, pass,
               first,
          r_max_retries, r_base_delay, r_attempt, r_last_exception,
          r_calls, r_sleeps, r_outcome, rpc,
          chat_key, chat_response, chat_result, cpc, cache, now, c_last>>

----------------------------------------------------------------------------
(* Bounds *)

\* largest price value drawn for a price field
MaxPrice == 2
\* most entries drawn for one price list
MaxEntries == 2
\* most records drawn for a batch passed to the enrichment
MaxBatch == 2
\* most records drawn for a search result
MaxResults == 2
\* most records a server response holds on one page
MaxPageCards == 1
\* largest total_pages a server response declares
MaxTotalPages == 2

----------------------------------------------------------------------------
(* JSON values *)

Null == [t |-> "null", v |-> 0]
Str == [t |-> "str", v |-> 0]
EmptyStr == [t |-> "empty", v |-> 0]
\* the n-th non-empty string used as a card id or a name
Id(n) == [t |-> "str", v |-> n]
Big == [t |-> "big", v |-> 0]
Num(n) == [t |-> "num", v |-> n]
NumStr(n) == [t |-> "numstr", v |-> n]
Dict(f) == [t |-> "dict", v |-> f]
List(s) == [t |-> "list", v |-> s]
EmptyDict == Dict([k \in {} |-> Null])
One(k, x) == Dict([kk \in {k} |-> x])
Card(f, o) == [t |-> "dict", v |-> f, order |-> o]

\* bool(x) of Python
Truthy(x) ==
    CASE x.t \in {"null", "empty"} -> FALSE
      [] x.t = "num" -> x.v # 0
      [] x.t = "dict" -> DOMAIN x.v # {}
      [] x.t = "list" -> Len(x.v) > 0
      [] OTHER -> TRUE

IsDict(x) == x.t = "dict"
IsList(x) == x.t = "list"

\* d.get(k) / d.get(k, default) for a default that reads like None downstream
Get(d, k) == IF k \in DOMAIN d.v THEN d.v[k] ELSE Null

\* d.get(k, default)
GetOr(d, k, default) == IF k \in DOMAIN d.v THEN d.v[k] ELSE default

\* outcome of a call: a returned number, or an exception that propagates
Ret(n) == [raised |-> FALSE, val |-> n]
Raise == [raised |-> TRUE, val |-> 0]

----------------------------------------------------------------------------
(* Price extraction *)

PRICE_KEYS ==
    <<"market_price", "mid_price", "low_price", "high_price",
      "market", "mid", "low", "high", "avg", "trend">>

\* 'price' in str(key).lower(), over the top-level keys the model draws
ContainsPrice(key) == key \in {"TCG_Prices", "price", "Avg_Price", "_price"}

\* _try_float: float(val) raises ValueError/TypeError (caught) for "str",
\* "dict", "list", and OverflowError (not caught) for "big"
try_float(val) ==
    CASE val.t = "null" -> Ret(0)
      [] val.t \in {"num", "numstr"} -> Ret(IF val.v > 0 THEN val.v ELSE 0)
      [] val.t = "big" -> Raise
      [] OTHER -> Ret(0)

RECURSIVE BestFrom(_, _)
BestFrom(d, i) ==
    IF i > Len(PRICE_KEYS) THEN Ret(0)
    ELSE LET r == try_float(Get(d, PRICE_KEYS[i]))
         IN  IF r.raised THEN Raise
             ELSE IF r.val > 0 THEN r
             ELSE BestFrom(d, i + 1)

best_price_from_dict(d) == BestFrom(d, 1)

\* for p in prices: if isinstance(p, dict): val = _best_price_from_dict(p);
\* if val > 0: return val        (Ret(0) here means: fell out of the loop)
RECURSIVE ScanFrom(_, _)
ScanFrom(l, i) ==
    IF i > Len(l) THEN Ret(0)
    ELSE IF ~IsDict(l[i]) THEN ScanFrom(l, i + 1)
    ELSE LET r == best_price_from_dict(l[i])
         IN  IF r.raised THEN Raise
             ELSE IF r.val > 0 THEN r
             ELSE ScanFrom(l, i + 1)

ScanList(l) == ScanFrom(l, 1)

\* step 1: TCG_Prices list
FromTcgPrices(c) ==
    LET tcg_prices == Get(c, "TCG_Prices")
    IN  IF Truthy(tcg_prices) /\ IsList(tcg_prices)
        THEN ScanList(tcg_prices.v) ELSE Ret(0)

\* step 2: tcgplayer dict, prices a dict or a list
FromTcgplayer(c) ==
    LET tcgplayer == Get(c, "tcgplayer")
    IN  IF Truthy(tcgplayer) /\ IsDict(tcgplayer)
        THEN LET prices == GetOr(tcgplayer, "prices", EmptyDict)
             IN  IF IsDict(prices) THEN best_price_from_dict(prices)
                 ELSE IF IsList(prices) THEN ScanList(prices.v)
                 ELSE Ret(0)
        ELSE Ret(0)

\* step 3: cardmarket dict, prices a list
FromCardmarket(c) ==
    LET cardmarket == Get(c, "cardmarket")
    IN  IF Truthy(cardmarket) /\ IsDict(cardmarket)
        THEN LET cm_prices == Get(cardmarket, "prices")
             IN  IF IsList(cm_prices) THEN ScanList(cm_prices.v) ELSE Ret(0)
        ELSE Ret(0)

\* step 4: every top-level key, in key order
RECURSIVE SweepFrom(_, _)
SweepFrom(c, i) ==
    IF i > Len(c.order) THEN Ret(0)
    ELSE LET key == c.order[i]
             val == Get(c, key)
         IN  IF val.t = "num" /\ val.v > 0 /\ ContainsPrice(key) THEN Ret(val.v)
             ELSE IF val.t = "big" /\ ContainsPrice(key) THEN Raise
             ELSE SweepFrom(c, i + 1)

FromTopLevel(c) == SweepFrom(c, 1)

\* first step whose outcome is a raise or a price > 0, else 0.0
RECURSIVE FirstOf(_)
FirstOf(rs) ==
    IF rs = <<>> THEN Ret(0)
    ELSE IF Head(rs).raised \/ Head(rs).val > 0 THEN Head(rs)
    ELSE FirstOf(Tail(rs))

extract_price_from_card(c) ==
    IF ~IsDict(c) THEN Ret(0)
    ELSE FirstOf(<<FromTcgPrices(c), FromTcgplayer(c), FromCardmarket(c),
                   FromTopLevel(c)>>)

----------------------------------------------------------------------------
(* Price enrichment: _enrich_prices_via_search *)

\* df[col] = value on one row; a new column goes last
SetKey(c, k, x) ==
    Card([kk \in DOMAIN c.v \cup {k} |-> IF kk = k THEN x ELSE c.v[kk]],
         IF k \in DOMAIN c.v THEN c.order ELSE Append(c.order, k))

\* rows of the search result whose id is truthy
WithId(sr) == {i \in 1..Len(sr) : Truthy(Get(sr[i], "id"))}

\* extract_price_from_card raises inside the try block
LookupRaises(sr) == \E i \in WithId(sr) : extract_price_from_card(sr[i]).raised

\* a dict built row by row: the last row with an id wins
LastOf(sr, rows, id) ==
    CHOOSE i \in rows : Get(sr[i], "id") = id
                        /\ \A j \in rows : Get(sr[j], "id") = id => j <= i

PricedRows(sr) == {i \in WithId(sr) : extract_price_from_card(sr[i]).val > 0}

price_lookup(sr) ==
    [id \in {Get(sr[i], "id") : i \in PricedRows(sr)} |->
        extract_price_from_card(sr[LastOf(sr, PricedRows(sr), id)]).val]

TcgRows(sr) ==
    {i \in WithId(sr) :
        LET tcg == Get(sr[i], "tcgplayer")
        IN  /\ Truthy(tcg) /\ IsDict(tcg)
            /\ (IsDict(Get(tcg, "prices")) \/ IsList(Get(tcg, "prices")))
            /\ Truthy(Get(tcg, "prices"))}

tcg_lookup(sr) ==
    [id \in {Get(sr[i], "id") : i \in TcgRows(sr)} |->
        Get(sr[LastOf(sr, TcgRows(sr), id)], "tcgplayer")]

CmRows(sr) ==
    {i \in WithId(sr) :
        LET cm == Get(sr[i], "cardmarket") IN Truthy(cm) /\ IsDict(cm)}

cm_lookup(sr) ==
    [id \in {Get(sr[i], "id") : i \in CmRows(sr)} |->
        Get(sr[LastOf(sr, CmRows(sr), id)], "cardmarket")]

\* _merge_tcg, with tcg = tcg_lookup
merge_tcg(row, tcg) ==
    LET cid == Get(row, "id")
        existing == Get(row, "tcgplayer")
    IN  IF Truthy(existing) /\ IsDict(existing) /\ Truthy(Get(existing, "prices"))
        THEN existing
        ELSE IF cid \in DOMAIN tcg THEN tcg[cid] ELSE existing

\* _merge_cm, with cm = cm_lookup
merge_cm(row, cm) ==
    LET cid == Get(row, "id")
    IN  IF cid \in DOMAIN cm THEN cm[cid] ELSE Get(row, "cardmarket")

MergeRow(row, tcg, cm) ==
    SetKey(SetKey(row, "tcgplayer", merge_tcg(row, tcg)), "cardmarket", merge_cm(row, cm))

\* the merge written as an inner join on the priced ids: unmatched rows are lost
RECURSIVE MatchedRows(_, _, _, _)
MatchedRows(batch, ids, tcg, cm) ==
    IF batch = <<>> THEN <<>>
    ELSE IF Get(Head(batch), "id") \in ids
         THEN <<MergeRow(Head(batch), tcg, cm)>> \o MatchedRows(Tail(batch), ids, tcg, cm)
         ELSE MatchedRows(Tail(batch), ids, tcg, cm)

EnrichInnerJoin(batch, sr) ==
    IF sr = <<>> THEN batch
    ELSE IF LookupRaises(sr) THEN batch
    ELSE IF PricedRows(sr) = {} THEN batch
    ELSE MatchedRows(batch, {Get(sr[i], "id") : i \in PricedRows(sr)},
                     tcg_lookup(sr), cm_lookup(sr))

\* the merge without the `if not price_lookup: return df` test
EnrichUnpriced(batch, sr) ==
    IF sr = <<>> THEN batch
    ELSE IF LookupRaises(sr) THEN batch
    ELSE LET tcg == tcg_lookup(sr)
             cm == cm_lookup(sr)
         IN  [i \in 1..Len(batch) |-> MergeRow(batch[i], tcg, cm)]

\* sr = <<>> is the empty DataFrame search_cards returns when it found nothing
\* or failed; `if not price_lookup` is PricedRows(sr) = {}
enrich_prices_via_search(batch, sr) ==
    IF sr = <<>> THEN batch
    ELSE IF LookupRaises(sr) THEN batch
    ELSE IF PricedRows(sr) = {} THEN batch
    ELSE LET tcg == tcg_lookup(sr)
             cm == cm_lookup(sr)
         IN  [i \in 1..Len(batch) |-> MergeRow(batch[i], tcg, cm)]

----------------------------------------------------------------------------
(* Inputs of the price extraction *)

PriceScalars ==
    {Null, Str, Big, NumStr(MaxPrice)} \cup {Num(n) : n \in (-1)..MaxPrice}

\* column orders drawn for a card
CardOrders ==
    {<<"id", "TCG_Prices", "tcgplayer", "cardmarket", "value", "Avg_Price", "price">>,
     <<"price", "Avg_Price", "value", "cardmarket", "tcgplayer", "TCG_Prices", "id">>}

CardKeys == {"id", "TCG_Prices", "tcgplayer", "cardmarket", "value", "Avg_Price", "price"}

MkCard(id, tcg, tp, cm, val, avg, price, o) ==
    Card([k \in CardKeys |->
            CASE k = "id" -> id
              [] k = "TCG_Prices" -> tcg
              [] k = "tcgplayer" -> tp
              [] k = "cardmarket" -> cm
              [] k = "value" -> val
              [] k = "Avg_Price" -> avg
              [] k = "price" -> price], o)

EmptyCard == Card([k \in {} |-> Null], <<>>)

\* one price per source, every shape of the source
TcgVals ==
    {Null, Num(1), List(<<>>), One("market_price", Num(1))}
    \cup {List(<<One("market_price", s)>>) : s \in PriceScalars}

TpVals ==
    {Null, Str, EmptyDict, One("prices", Null)}
    \cup {One("prices", One("market", s)) : s \in PriceScalars}

CmVals ==
    {Null, One("prices", One("avg", Num(1)))}
    \cup {One("prices", List(<<One("avg", s)>>)) : s \in PriceScalars}

IsCrossCard(c) ==
    \E tcg \in TcgVals, tp \in TpVals, cm \in CmVals,
       avg \in {Null, Num(1)}, price \in PriceScalars, o \in CardOrders :
        c = MkCard(Str, tcg, tp, cm, Num(MaxPrice), avg, price, o)

\* one source holding a list of entries of up to two fields
ScanKeys == {"market_price", "market", "trend"}
ScanVals == {Num(n) : n \in 0..MaxPrice}
Entries ==
    {EmptyDict, Str}
    \cup {One(k, x) : k \in ScanKeys, x \in ScanVals}
    \cup {Dict([k \in {k1, k2} |-> IF k = k1 THEN x1 ELSE x2]) :
            k1 \in ScanKeys, k2 \in ScanKeys, x1 \in ScanVals, x2 \in ScanVals}

EntryLists == UNION {[1..n -> Entries] : n \in 0..MaxEntries}

IsScanCard(c) ==
    \E l \in EntryLists, o \in CardOrders :
        \/ c = MkCard(Str, List(l), Null, Null, Null, Null, Null, o)
        \/ c = MkCard(Str, Null, One("prices", List(l)), Null, Null, Null, Null, o)
        \/ c = MkCard(Str, Null, Null, One("prices", List(l)), Null, Null, Null, o)

----------------------------------------------------------------------------
(* extract_price_from_card as a one-step machine *)

NoResult == [raised |-> FALSE, df |-> <<>>]
PriceIdle == card = Null /\ result = Ret(0) /\ ppc = "idle"
EnrichIdle == df = <<>> /\ search_results = <<>> /\ enriched = <<>> /\ epc = "idle"
FetchIdle ==
    /\ fpc = "idle" /\ set_code = Null /\ set_id = Null /\ ident_idx = 0
    /\ page = 0 /\ attempt = 0 /\ last_exception = FALSE
    /\ all_cards = <<>> /\ set_info = EmptyDict /\ all_results = <<>>
    /\ requests = <<>> /\ responses = <<>> /\ returned = NoResult /\ pass = 0
    /\ first = [ran |-> FALSE, lookup |-> {}, df |-> <<>>, requests |-> 0]

RetryIdle ==
    /\ r_max_retries = 0 /\ r_base_delay = 0 /\ r_attempt = 0
    /\ r_last_exception = Null /\ r_calls = <<>> /\ r_sleeps = <<>>
    /\ r_outcome = [kind |-> "none"] /\ rpc = "idle"

NoResponse == [kind |-> "none"]
ChatIdle ==
    /\ chat_key = FALSE /\ chat_response = NoResponse
    /\ chat_result = Null /\ cpc = "idle"

NoCall == [fn |-> "none"]
CacheIdle == cache = <<>> /\ now = 0 /\ c_last = NoCall

RestIdle == RetryIdle /\ ChatIdle /\ CacheIdle

PriceInit ==
    /\ \/ card \in {Null, EmptyCard}
       \/ IsCrossCard(card)
       \/ IsScanCard(card)
    /\ result = Ret(0)
    /\ ppc = "call"
    /\ EnrichIdle
    /\ FetchIdle
    /\ RestIdle

Extract ==
    /\ ppc = "call"
    /\ result' = extract_price_from_card(card)
    /\ ppc' = "done"
    /\ UNCHANGED <<card, enrichVars, fetchVars, restVars>>

PriceNext == Extract

SpecPrice == PriceInit /\ [][PriceNext]_vars

----------------------------------------------------------------------------
(* _enrich_prices_via_search as a one-step machine: the batch and what     *)
(* search_cards returns are the inputs                                     *)

BatchOrder == <<"id", "TCG_Prices", "tcgplayer", "cardmarket", "value", "Avg_Price", "price">>

BatchCard(id, tp, cm) == MkCard(id, Null, tp, cm, Null, Null, Null, BatchOrder)

\* batch records: no price anywhere, a tcgplayer block of zero prices,
\* present prices in both blocks
BatchCards ==
    {BatchCard(Id(n), sub[1], sub[2]) :
        n \in 1..2,
        sub \in {<<Null, Null>>,
                 <<One("prices", One("market", Num(0))), Null>>,
                 <<One("prices", One("market", Num(1))),
                   One("prices", List(<<One("avg", Num(1))>>))>>}}

\* search records: unpriced, priced in tcgplayer, priced in cardmarket,
\* priced in TCG_Prices only, a price float() cannot convert
SearchCards ==
    {MkCard(id, sh[1], sh[2], sh[3], Null, Null, sh[4], BatchOrder) :
        id \in {Id(1), EmptyStr},
        sh \in {<<Null, Null, Null, Null>>,
                <<Null, One("prices", One("market", Num(2))), Null, Null>>,
                <<Null, One("prices", One("market", Num(0))),
                  One("prices", List(<<One("avg", Num(2))>>)), Null>>,
                <<List(<<One("market_price", Num(2))>>), Null, Null, Null>>,
                <<Null, Null, Null, Big>>}}

EnrichInit ==
    /\ df \in UNION {[1..n -> BatchCards] : n \in 1..MaxBatch}
    /\ search_results \in UNION {[1..n -> SearchCards] : n \in 0..MaxResults}
    /\ enriched = <<>>
    /\ epc = "call"
    /\ PriceIdle
    /\ FetchIdle
    /\ RestIdle

Enrich ==
    /\ epc = "call"
    /\ enriched' = enrich_prices_via_search(df, search_results)
    /\ epc' = "done"
    /\ UNCHANGED <<df, search_results, priceVars, fetchVars, restVars>>

EnrichNext == Enrich

SpecEnrich == EnrichInit /\ [][EnrichNext]_vars

----------------------------------------------------------------------------
(* fetch_set_cards, with retry_api_call, search_cards and the enrichment   *)
(* it calls. One action per HTTP attempt: the attempt, and everything the  *)
(* code does with its outcome up to the next HTTP attempt or the return.   *)

\* retry_api_call(_fetch, max_retries=2, ...) in fetch_set_cards
SetsMaxRetries == 2
\* retry_api_call default max_retries, used by search_cards
SearchMaxRetries == 3
\* search_cards(set_name, max_pages=10) in _enrich_prices_via_search
SearchMaxPages == 10

identifiers ==
    (IF Truthy(set_code) THEN <<set_code>> ELSE <<>>)
    \o (IF Truthy(set_id) /\ set_id # set_code THEN <<set_id>> ELSE <<>>)

\* the tagging that takes set_code_val from the identifier only
TagWithIdentifier(c, info, identifier) ==
    SetKey(SetKey(c, "set_name", GetOr(info, "name", EmptyStr)),
           "set_code_val", identifier)

\* card['set_name'] = ...; card['set_code_val'] = ...
Tag(c, info, identifier) ==
    SetKey(SetKey(c, "set_name", GetOr(info, "name", EmptyStr)),
           "set_code_val", GetOr(info, "set_code", identifier))

TagAll(cards, info, identifier) ==
    [i \in 1..Len(cards) |-> Tag(cards[i], info, identifier)]

\* extract_price_series raises when one extraction raises
PricesRaise(cards) == \E i \in 1..Len(cards) : extract_price_from_card(cards[i]).raised

RECURSIVE SumPrices(_)
SumPrices(cards) ==
    IF cards = <<>> THEN 0
    ELSE extract_price_from_card(Head(cards)).val + SumPrices(Tail(cards))

\* df['_price'] = extract_price_series(df)
WithPrice(cards) ==
    [i \in 1..Len(cards) |->
        SetKey(cards[i], "_price", Num(extract_price_from_card(cards[i]).val))]

RECURSIVE Without(_, _)
Without(o, k) ==
    IF o = <<>> THEN <<>>
    ELSE IF Head(o) = k THEN Without(Tail(o), k)
    ELSE <<Head(o)>> \o Without(Tail(o), k)

\* df.drop(columns=['_price'], errors='ignore')
DropPrice(cards) ==
    [i \in 1..Len(cards) |->
        Card([k \in DOMAIN cards[i].v \ {"_price"} |-> cards[i].v[k]],
             Without(cards[i].order, "_price"))]

\* the part of the state the steps below rewrite
Cur ==
    [fpc |-> fpc, ident_idx |-> ident_idx, page |-> page, attempt |-> attempt,
     last_exception |-> last_exception, all_cards |-> all_cards,
     set_info |-> set_info, all_results |-> all_results, returned |-> returned,
     first |-> first]

Becomes(next) ==
    \E n \in {next} :
        /\ fpc' = n.fpc /\ ident_idx' = n.ident_idx /\ page' = n.page
        /\ attempt' = n.attempt /\ last_exception' = n.last_exception
        /\ all_cards' = n.all_cards /\ set_info' = n.set_info
        /\ all_results' = n.all_results /\ returned' = n.returned
        /\ first' = n.first

Return(cards) == [raised |-> FALSE, df |-> cards]
Raised == [raised |-> TRUE, df |-> <<>>]

\* the trigger that enriches every batch of a named set: the price sum is
\* not consulted
TriggerAlways(cards, info) ==
    IF PricesRaise(cards)
    THEN [Cur EXCEPT !.fpc = "done", !.returned = Raised,
                     !.all_cards = cards, !.set_info = info]
    ELSE IF Truthy(Get(info, "name"))
    THEN [Cur EXCEPT !.fpc = "search", !.page = 1, !.attempt = 0,
                     !.last_exception = FALSE, !.all_results = <<>>,
                     !.all_cards = WithPrice(cards), !.set_info = info]
    ELSE [Cur EXCEPT !.fpc = "done", !.returned = Return(DropPrice(cards)),
                     !.all_cards = cards, !.set_info = info]

\* the trigger that never enriches: an all-zero batch is returned as fetched
TriggerNever(cards, info) ==
    IF PricesRaise(cards)
    THEN [Cur EXCEPT !.fpc = "done", !.returned = Raised,
                     !.all_cards = cards, !.set_info = info]
    ELSE IF SumPrices(cards) = 0
    THEN [Cur EXCEPT !.fpc = "done", !.returned = Return(DropPrice(cards)),
                     !.all_cards = cards, !.set_info = info]
    ELSE [Cur EXCEPT !.fpc = "done", !.returned = Return(WithPrice(cards)),
                     !.all_cards = cards, !.set_info = info]

\* lines 172-183: the batch is non-empty; enrich it when no record has a price
Trigger(cards, info) ==
    IF PricesRaise(cards)
    THEN [Cur EXCEPT !.fpc = "done", !.returned = Raised,
                     !.all_cards = cards, !.set_info = info]
    ELSE IF SumPrices(cards) = 0 /\ Truthy(Get(info, "name"))
    THEN [Cur EXCEPT !.fpc = "search", !.page = 1, !.attempt = 0,
                     !.last_exception = FALSE, !.all_results = <<>>,
                     !.all_cards = WithPrice(cards), !.set_info = info]
    ELSE IF SumPrices(cards) = 0
    THEN [Cur EXCEPT !.fpc = "done", !.returned = Return(DropPrice(cards)),
                     !.all_cards = cards, !.set_info = info]
    ELSE [Cur EXCEPT !.fpc = "done", !.returned = Return(WithPrice(cards)),
                     !.all_cards = cards, !.set_info = info]

\* `continue`, or the end of the for loop: return pd.DataFrame()
NextIdentifier ==
    IF ident_idx < Len(identifiers)
    THEN [Cur EXCEPT !.ident_idx = ident_idx + 1, !.page = 1, !.attempt = 0,
                     !.last_exception = FALSE, !.all_cards = <<>>,
                     !.set_info = EmptyDict]
    ELSE [Cur EXCEPT !.fpc = "done", !.returned = Return(<<>>)]

\* `break` out of the while loop with `cards` accumulated
EndOfLoop(cards, info) ==
    IF cards # <<>> THEN Trigger(cards, info) ELSE NextIdentifier

ListOf(d, k) == IF IsList(Get(d, k)) THEN Get(d, k).v ELSE <<>>

\* pagination.get("total_pages", 1)
TotalPages(data) ==
    LET pagination == IF IsDict(Get(data, "pagination"))
                      THEN Get(data, "pagination") ELSE EmptyDict
    IN  GetOr(pagination, "total_pages", Num(1)).v

\* limit = 200 in fetch_set_cards: the page size asked for
SetsLimit == 200
\* limit = 100 in search_cards
SearchLimit == 100

\* the loop that asks for the next page until a page comes back empty
SetsPageUntilEmpty(data) ==
    IF ~Truthy(data) THEN EndOfLoop(all_cards, set_info)
    ELSE LET cards_batch == ListOf(data, "cards")
             info == IF IsDict(Get(data, "set")) THEN Get(data, "set") ELSE EmptyDict
             identifier == identifiers[ident_idx]
             cards == all_cards \o TagAll(cards_batch, info, identifier)
         IN  IF cards_batch = <<>> THEN EndOfLoop(all_cards, info)
             ELSE [Cur EXCEPT !.page = page + 1, !.attempt = 0,
                              !.last_exception = FALSE,
                              !.all_cards = cards, !.set_info = info]

\* the loop without the test for an empty first page
SetsPageNoShortCircuit(data) ==
    IF ~Truthy(data) THEN EndOfLoop(all_cards, set_info)
    ELSE LET cards_batch == ListOf(data, "cards")
             info == IF IsDict(Get(data, "set")) THEN Get(data, "set") ELSE EmptyDict
             identifier == identifiers[ident_idx]
             cards == all_cards \o TagAll(cards_batch, info, identifier)
         IN  IF page >= TotalPages(data) THEN EndOfLoop(cards, info)
             ELSE [Cur EXCEPT !.page = page + 1, !.attempt = 0,
                              !.last_exception = FALSE,
                              !.all_cards = cards, !.set_info = info]

\* the loop that puts the records of a page before those of the earlier pages
SetsPagePrepend(data) ==
    IF ~Truthy(data) THEN EndOfLoop(all_cards, set_info)
    ELSE LET cards_batch == ListOf(data, "cards")
             info == IF IsDict(Get(data, "set")) THEN Get(data, "set") ELSE EmptyDict
             identifier == identifiers[ident_idx]
             cards == TagAll(cards_batch, info, identifier) \o all_cards
         IN  IF cards_batch = <<>> /\ page = 1 THEN EndOfLoop(all_cards, info)
             ELSE IF page >= TotalPages(data) THEN EndOfLoop(cards, info)
             ELSE [Cur EXCEPT !.page = page + 1, !.attempt = 0,
                              !.last_exception = FALSE,
                              !.all_cards = cards, !.set_info = info]

\* the loop that goes on past the page the response declares the last
SetsPageIgnoreTotal(data) ==
    IF ~Truthy(data) THEN EndOfLoop(all_cards, set_info)
    ELSE LET cards_batch == ListOf(data, "cards")
             info == IF IsDict(Get(data, "set")) THEN Get(data, "set") ELSE EmptyDict
             identifier == identifiers[ident_idx]
             cards == all_cards \o TagAll(cards_batch, info, identifier)
         IN  IF cards_batch = <<>> /\ page = 1 THEN EndOfLoop(all_cards, info)
             ELSE [Cur EXCEPT !.page = page + 1, !.attempt = 0,
                              !.last_exception = FALSE,
                              !.all_cards = cards, !.set_info = info]

\* lines 148-167 for a response retry_api_call returned
SetsPage(data) ==
    IF ~Truthy(data) THEN EndOfLoop(all_cards, set_info)
    ELSE LET cards_batch == ListOf(data, "cards")
             info == IF IsDict(Get(data, "set")) THEN Get(data, "set") ELSE EmptyDict
             identifier == identifiers[ident_idx]
             cards == all_cards \o TagAll(cards_batch, info, identifier)
         IN  IF cards_batch = <<>> /\ page = 1 THEN EndOfLoop(all_cards, info)
             ELSE IF page >= TotalPages(data) THEN EndOfLoop(cards, info)
             ELSE [Cur EXCEPT !.page = page + 1, !.attempt = 0,
                              !.last_exception = FALSE,
                              !.all_cards = cards, !.set_info = info]

\* retry_api_call: what one attempt's outcome leads to.
\* o.kind: "err" the attempt raised, "none" it returned None, "value" it
\* returned o.data. OnValue, OnNone and OnRaise are what the caller does with
\* a returned value, a returned None and a raise.
Retry(o, max_retries, OnValue, OnNone, OnRaise) ==
    CASE o.kind = "value" -> OnValue
      [] o.kind = "none" ->
            IF attempt + 1 < max_retries
            THEN [Cur EXCEPT !.attempt = attempt + 1]
            ELSE IF last_exception THEN OnRaise ELSE OnNone
      [] o.kind = "err" ->
            IF attempt + 1 < max_retries
            THEN [Cur EXCEPT !.attempt = attempt + 1, !.last_exception = TRUE]
            ELSE OnRaise

\* what the server may answer to GET /sets/{ident}?page=&limit=
\* a record with the keys id and tcgplayer only
SmallCard(id, tp) ==
    Card([k \in {"id", "tcgplayer"} |-> IF k = "id" THEN id ELSE tp], <<"id", "tcgplayer">>)

\* a record with the keys id and TCG_Prices only
TcgCard(id, tcg) ==
    Card([k \in {"id", "TCG_Prices"} |-> IF k = "id" THEN id ELSE tcg], <<"id", "TCG_Prices">>)

Unpriced(n) == SmallCard(Id(n), Null)
ZeroPriced(n) == SmallCard(Id(n), One("prices", One("market", Num(0))))
Priced(n, x) == SmallCard(Id(n), One("prices", One("market", Num(x))))

PageCards == {Unpriced(1), Priced(2, 1)}

NamedSet == Dict([k \in {"name", "set_code"} |-> IF k = "name" THEN Id(9) ELSE Id(8)])

SetBlocks == {EmptyDict, NamedSet}

Totals == {Null} \cup {Num(n) : n \in 1..MaxTotalPages}

Pagination(total) == IF total = Null THEN EmptyDict ELSE One("total_pages", total)

SetsResponse(cards, info, total) ==
    Dict([k \in {"cards", "set", "pagination"} |->
            CASE k = "cards" -> List(cards)
              [] k = "set" -> info
              [] k = "pagination" -> Pagination(total)])

\* the outcomes of one attempt when the server holds the records `catalogue`
SetsOutcomesOf(catalogue) ==
    {[kind |-> "err", data |-> Null], [kind |-> "none", data |-> Null],
     [kind |-> "value", data |-> EmptyDict]}
    \cup {[kind |-> "value", data |-> SetsResponse(cards, info, total)] :
            cards \in UNION {[1..n -> catalogue] : n \in 0..MaxPageCards},
            info \in SetBlocks, total \in Totals}

SetsOutcomes == SetsOutcomesOf(PageCards)

\* what the server may answer to GET /search?q=&page=&limit=
ResultCards ==
    {Priced(1, 2), ZeroPriced(1), TcgCard(Id(1), List(<<One("market_price", Num(2))>>))}

SearchResponse(results, total) ==
    Dict([k \in {"results", "pagination"} |->
            IF k = "results" THEN List(results) ELSE Pagination(total)])

SearchOutcomes ==
    {[kind |-> "err", data |-> Null], [kind |-> "none", data |-> Null],
     [kind |-> "value", data |-> EmptyDict]}
    \cup {[kind |-> "value", data |-> SearchResponse(results, total)] :
            results \in UNION {[1..n -> ResultCards] : n \in 0..MaxPageCards},
            total \in Totals}

\* search_cards returned sr (<<>>: the empty DataFrame); lines 196-245, 181-183
Enriched(sr) ==
    [Cur EXCEPT !.fpc = "done",
                !.returned = Return(DropPrice(enrich_prices_via_search(all_cards, sr))),
                !.first = IF pass = 1
                          THEN [first EXCEPT !.ran = TRUE,
                                             !.lookup = IF sr = <<>> \/ LookupRaises(sr)
                                                        THEN {}
                                                        ELSE {Get(sr[i], "id") : i \in PricedRows(sr)}]
                          ELSE first]

\* the loop without the max_pages bound
SearchPageUncapped(data) ==
    IF ~Truthy(data) THEN Enriched(all_results)
    ELSE LET results == all_results \o ListOf(data, "results")
         IN  IF page >= TotalPages(data)
             THEN Enriched(results)
             ELSE [Cur EXCEPT !.page = page + 1, !.attempt = 0,
                              !.last_exception = FALSE, !.all_results = results]

\* the loop that tests the bound after one page too many
SearchPageOneMore(data) ==
    IF ~Truthy(data) THEN Enriched(all_results)
    ELSE LET results == all_results \o ListOf(data, "results")
         IN  IF page >= TotalPages(data) \/ page > SearchMaxPages
             THEN Enriched(results)
             ELSE [Cur EXCEPT !.page = page + 1, !.attempt = 0,
                              !.last_exception = FALSE, !.all_results = results]

\* lines 304-314 of search_cards for a response retry_api_call returned
SearchPage(data) ==
    IF ~Truthy(data) THEN Enriched(all_results)
    ELSE LET results == all_results \o ListOf(data, "results")
         IN  IF page >= TotalPages(data) \/ page + 1 > SearchMaxPages
             THEN Enriched(results)
             ELSE [Cur EXCEPT !.page = page + 1, !.attempt = 0,
                              !.last_exception = FALSE, !.all_results = results]

FetchInit ==
    /\ set_code \in {EmptyStr, Id(5)}
    /\ set_id \in {Null, Id(5), Id(6)}
    /\ fpc = IF identifiers = <<>> THEN "done" ELSE "fetch"
    /\ ident_idx = 1 /\ page = 1 /\ attempt = 0 /\ last_exception = FALSE
    /\ all_cards = <<>> /\ set_info = EmptyDict /\ all_results = <<>>
    /\ requests = <<>> /\ responses = <<>>
    /\ returned = Return(<<>>) /\ pass = 1
    /\ first = [ran |-> FALSE, lookup |-> {}, df |-> <<>>, requests |-> 0]
    /\ PriceIdle /\ EnrichIdle /\ RestIdle

\* one attempt of GET /sets/{identifier}?page=page with the outcome o, and what
\* fetch_set_cards does with it
SetsStep(o) ==
    /\ requests' = Append(requests, [ep |-> "sets", key |-> identifiers[ident_idx],
                                     page |-> page])
    /\ Becomes(Retry(o, SetsMaxRetries, SetsPage(o.data),
                     EndOfLoop(all_cards, set_info), NextIdentifier))
    /\ UNCHANGED <<set_code, set_id, pass, priceVars, enrichVars, restVars>>

\* one attempt of GET /search?q=set_name&page=page with the outcome o, and
\* what search_cards and its caller do with it
SearchStep(o) ==
    /\ requests' = Append(requests, [ep |-> "search", key |-> Get(set_info, "name"),
                                     page |-> page])
    /\ Becomes(Retry(o, SearchMaxRetries, SearchPage(o.data),
                     Enriched(all_results), Enriched(<<>>)))
    /\ UNCHANGED <<set_code, set_id, pass, priceVars, enrichVars, restVars>>

\* one attempt of GET /sets/{identifier}?page=page
SetsAttempt ==
    /\ fpc = "fetch"
    /\ \E o \in SetsOutcomes : SetsStep(o)
    /\ UNCHANGED responses

\* one attempt of GET /search?q=set_name&page=page
SearchAttempt ==
    /\ fpc = "search"
    /\ \E o \in SearchOutcomes : SearchStep(o)
    /\ UNCHANGED responses

FetchNext == SetsAttempt \/ SearchAttempt

SpecFetch == FetchInit /\ [][FetchNext]_vars

----------------------------------------------------------------------------
(* The trigger and the enrichment applied again to their own result:       *)
(* fetch_set_cards has fetched an all-zero batch of a named set in one     *)
(* page and is about to call _enrich_prices_via_search                     *)

ZeroCards == {Unpriced(1), Unpriced(2), ZeroPriced(1)}

ReapplyInit ==
    /\ set_code = Id(5) /\ set_id = Null
    /\ fpc = "search"
    /\ ident_idx = 1 /\ page = 1 /\ attempt = 0 /\ last_exception = FALSE
    /\ \E cards \in UNION {[1..n -> ZeroCards] : n \in 1..MaxBatch} :
            all_cards = WithPrice(TagAll(cards, NamedSet, Id(5)))
    /\ set_info = NamedSet /\ all_results = <<>>
    /\ requests = <<[ep |-> "sets", key |-> Id(5), page |-> 1]>> /\ responses = <<>>
    /\ returned = Return(<<>>) /\ pass = 1
    /\ first = [ran |-> FALSE, lookup |-> {}, df |-> <<>>, requests |-> 0]
    /\ PriceIdle /\ EnrichIdle /\ RestIdle

\* lines 175-183 applied a second time, to the batch pass 1 returned
Reapply ==
    /\ fpc = "done" /\ pass = 1
    /\ ~returned.raised /\ returned.df # <<>>
    /\ pass' = 2
    /\ Becomes([Trigger(returned.df, set_info) EXCEPT
                    !.first = [first EXCEPT !.df = returned.df,
                                            !.requests = Len(requests)]])
    /\ UNCHANGED <<set_code, set_id, requests, responses, priceVars, enrichVars,
                   restVars>>

ReapplyNext == SearchAttempt \/ Reapply

SpecReapply == ReapplyInit /\ [][ReapplyNext]_vars

----------------------------------------------------------------------------
(* The two pagination loops with the outcome of every request kept in      *)
(* `responses` (responses[i] is the outcome of requests[i]):               *)
(*  - fetch_set_cards on a server whose records all carry a price, so that *)
(*    the batch is returned without the enrichment;                        *)
(*  - search_cards as called by the enrichment of an all-zero batch that   *)
(*    fetch_set_cards fetched in one page.                                 *)

PricedCards == {Priced(2, 1)}

PagesInit ==
    /\ ident_idx = 1 /\ page = 1 /\ attempt = 0 /\ last_exception = FALSE
    /\ all_results = <<>> /\ returned = Return(<<>>) /\ pass = 1
    /\ first = [ran |-> FALSE, lookup |-> {}, df |-> <<>>, requests |-> 0]
    /\ PriceIdle /\ EnrichIdle /\ RestIdle
    /\ \/ /\ set_code \in {EmptyStr, Id(5)}
          /\ set_id \in {Null, Id(5), Id(6)}
          /\ fpc = IF identifiers = <<>> THEN "done" ELSE "fetch"
          /\ all_cards = <<>> /\ set_info = EmptyDict
          /\ requests = <<>> /\ responses = <<>>
       \/ /\ set_code = Id(5) /\ set_id = Null
          /\ fpc = "search"
          /\ set_info = NamedSet
          /\ \E cards \in UNION {[1..n -> ZeroCards] : n \in 1..MaxBatch} :
                /\ all_cards = WithPrice(TagAll(cards, NamedSet, Id(5)))
                /\ requests = <<[ep |-> "sets", key |-> Id(5), page |-> 1]>>
                /\ responses = <<[kind |-> "value",
                                  data |-> SetsResponse(cards, NamedSet, Null)]>>

PagedSetsAttempt ==
    /\ fpc = "fetch"
    /\ \E o \in SetsOutcomesOf(PricedCards) :
          SetsStep(o) /\ responses' = Append(responses, o)

PagedSearchAttempt ==
    /\ fpc = "search"
    /\ \E o \in SearchOutcomes :
          SearchStep(o) /\ responses' = Append(responses, o)

PagesNext == PagedSetsAttempt \/ PagedSearchAttempt

SpecPages == PagesInit /\ [][PagesNext]_vars

----------------------------------------------------------------------------
(* The two pagination loops against a server that answers every request   *)
(* and declares the same total_pages on every page of an identifier or     *)
(* query, with totals beyond the max_pages of the search.                  *)

\* largest total_pages such a server declares
MaxDeclared == 11

SteadyResults == {Priced(1, 2)}

\* total_pages declared so far to the requests of endpoint ep for key
DeclaredSoFar(ep, key) ==
    {Get(Get(responses[i].data, "pagination"), "total_pages") :
        i \in {j \in 1..Len(responses) :
                  /\ requests[j].ep = ep /\ requests[j].key = key
                  /\ IsDict(Get(responses[j].data, "pagination"))}}

SteadyTotals(ep, key) ==
    IF DeclaredSoFar(ep, key) = {} THEN {Num(n) : n \in 1..MaxDeclared}
    ELSE DeclaredSoFar(ep, key)

TotalsInit ==
    /\ ident_idx = 1 /\ page = 1 /\ attempt = 0 /\ last_exception = FALSE
    /\ all_results = <<>> /\ returned = Return(<<>>) /\ pass = 1
    /\ first = [ran |-> FALSE, lookup |-> {}, df |-> <<>>, requests |-> 0]
    /\ PriceIdle /\ EnrichIdle /\ RestIdle
    /\ set_code = Id(5)
    /\ \/ /\ set_id = Null
          /\ fpc = "fetch"
          /\ all_cards = <<>> /\ set_info = EmptyDict
          /\ requests = <<>> /\ responses = <<>>
       \/ /\ set_id = Null
          /\ fpc = "search"
          /\ set_info = NamedSet
          /\ all_cards = WithPrice(TagAll(<<Unpriced(1)>>, NamedSet, Id(5)))
          /\ requests = <<[ep |-> "sets", key |-> Id(5), page |-> 1]>>
          /\ responses = <<[kind |-> "value",
                            data |-> SetsResponse(<<Unpriced(1)>>, NamedSet, Null)]>>

SteadySetsAttempt ==
    /\ fpc = "fetch"
    /\ \E cards \in UNION {[1..n -> PricedCards] : n \in 0..MaxPageCards} :
       \E total \in SteadyTotals("sets", identifiers[ident_idx]) :
          \E o \in {[kind |-> "value", data |-> SetsResponse(cards, NamedSet, total)]} :
              SetsStep(o) /\ responses' = Append(responses, o)

SteadySearchAttempt ==
    /\ fpc = "search"
    /\ \E results \in UNION {[1..n -> SteadyResults] : n \in 0..MaxPageCards} :
       \E total \in SteadyTotals("search", Get(set_info, "name")) :
          \E o \in {[kind |-> "value", data |-> SearchResponse(results, total)]} :
              SearchStep(o) /\ responses' = Append(responses, o)

TotalsNext == SteadySetsAttempt \/ SteadySearchAttempt

SpecTotals == TotalsInit /\ [][TotalsNext]_vars

----------------------------------------------------------------------------
(* search_cards as the enrichment calls it, over long searches: the server *)
(* may declare more pages than max_pages, and a bounded number of attempts *)
(* fail.                                                                   *)

\* most attempts of one search that raise or return None
MaxFailures == 3

\* attempts of the running search that gave no value
FailuresSoFar ==
    Cardinality({i \in 1..Len(requests) : requests[i].ep = "search"}) - (page - 1)

LongSearchOutcomes ==
    {[kind |-> "value", data |-> EmptyDict]}
    \cup {[kind |-> "value", data |-> SearchResponse(results, total)] :
            results \in UNION {[1..n -> SteadyResults] : n \in 0..MaxPageCards},
            total \in {Null, Num(MaxDeclared)}}
    \cup (IF FailuresSoFar < MaxFailures
          THEN {[kind |-> "err", data |-> Null], [kind |-> "none", data |-> Null]}
          ELSE {})

SearchInit ==
    /\ ident_idx = 1 /\ page = 1 /\ attempt = 0 /\ last_exception = FALSE
    /\ all_results = <<>> /\ returned = Return(<<>>) /\ pass = 1
    /\ first = [ran |-> FALSE, lookup |-> {}, df |-> <<>>, requests |-> 0]
    /\ PriceIdle /\ EnrichIdle /\ RestIdle
    /\ set_code = Id(5) /\ set_id = Null
    /\ fpc = "search"
    /\ set_info = NamedSet
    /\ all_cards = WithPrice(TagAll(<<Unpriced(1)>>, NamedSet, Id(5)))
    /\ requests = <<[ep |-> "sets", key |-> Id(5), page |-> 1]>>
    /\ responses = <<[kind |-> "value",
                      data |-> SetsResponse(<<Unpriced(1)>>, NamedSet, Null)]>>

LongSearchAttempt ==
    /\ fpc = "search"
    /\ \E o \in LongSearchOutcomes : SearchStep(o) /\ UNCHANGED responses

SearchNext == LongSearchAttempt

SpecSearch == SearchInit /\ [][SearchNext]_vars

----------------------------------------------------------------------------
(* fetch_set_cards over servers that may declare more pages for ever. A    *)
(* run that never returns must be a cycle of finitely many states, so in   *)
(* this specification requests and responses hold the latest request and   *)
(* its outcome only, the page of the /sets loop is counted up to MaxPage   *)
(* (MaxPage standing for every later page; the totals declared are drawn   *)
(* relative to it), at most MaxKept records are served, and the search     *)
(* finds nothing.                                                          *)

\* the /sets page up to which pages are told apart
MaxPage == 3
\* most records the server serves for one identifier
MaxKept == 1

Saturate(st) ==
    IF st.fpc = "fetch" /\ st.page > MaxPage THEN [st EXCEPT !.page = MaxPage] ELSE st

\* the server answers page `page`: it fails, or declares no total, this page
\* the last, or one more page
LiveSetsOutcomes ==
    {[kind |-> "err", data |-> Null], [kind |-> "none", data |-> Null],
     [kind |-> "value", data |-> EmptyDict]}
    \cup {[kind |-> "value", data |-> SetsResponse(cards, info, total)] :
            cards \in {<<>>} \cup (IF Len(all_cards) < MaxKept
                                   THEN {<<c>> : c \in PageCards} ELSE {}),
            info \in SetBlocks,
            total \in {Null, Num(page), Num(page + 1)}}

LiveSearchOutcomes ==
    {[kind |-> "err", data |-> Null], [kind |-> "none", data |-> Null],
     [kind |-> "value", data |-> EmptyDict]}
    \cup {[kind |-> "value", data |-> SearchResponse(<<>>, total)] :
            total \in {Null, Num(MaxDeclared)}}

LiveInit ==
    /\ set_code \in {EmptyStr, Id(5)}
    /\ set_id \in {Null, Id(5), Id(6)}
    /\ fpc = IF identifiers = <<>> THEN "done" ELSE "fetch"
    /\ ident_idx = 1 /\ page = 1 /\ attempt = 0 /\ last_exception = FALSE
    /\ all_cards = <<>> /\ set_info = EmptyDict /\ all_results = <<>>
    /\ requests = <<>> /\ responses = <<>>
    /\ returned = Return(<<>>) /\ pass = 1
    /\ first = [ran |-> FALSE, lookup |-> {}, df |-> <<>>, requests |-> 0]
    /\ PriceIdle /\ EnrichIdle /\ RestIdle

\* one attempt of GET /sets/{identifier}?page=page
LiveSetsAttempt ==
    /\ fpc = "fetch"
    /\ \E o \in LiveSetsOutcomes :
          /\ requests' = <<[ep |-> "sets", key |-> identifiers[ident_idx],
                            page |-> page]>>
          /\ responses' = <<o>>
          /\ Becomes(Saturate(Retry(o, SetsMaxRetries, SetsPage(o.data),
                                    EndOfLoop(all_cards, set_info), NextIdentifier)))
    /\ UNCHANGED <<set_code, set_id, pass, priceVars, enrichVars, restVars>>

\* one attempt of GET /search?q=set_name&page=page
LiveSearchAttempt ==
    /\ fpc = "search"
    /\ \E o \in LiveSearchOutcomes :
          /\ requests' = <<[ep |-> "search", key |-> Get(set_info, "name"),
                            page |-> page]>>
          /\ responses' = <<o>>
          /\ Becomes(Retry(o, SearchMaxRetries, SearchPage(o.data),
                           Enriched(all_results), Enriched(<<>>)))
    /\ UNCHANGED <<set_code, set_id, pass, priceVars, enrichVars, restVars>>

LiveNext == LiveSetsAttempt \/ LiveSearchAttempt

\* every HTTP request completes or fails: an attempt that can be made is made
SpecLive == LiveInit /\ [][LiveNext]_vars /\ WF_vars(LiveNext)

----------------------------------------------------------------------------
(* Both loops over a server whose page p holds the record p, so that the   *)
(* order of the accumulated records shows; the requests and their outcomes *)
(* are logged, and a bounded number of attempts fail.                      *)

\* largest total_pages declared to these loops
MaxOrderPages == 3
\* most attempts of one call that raise or return None
MaxOrderFailures == 2

OrderFailures == Cardinality({i \in 1..Len(responses) : responses[i].kind # "value"})

FailedOutcomes ==
    IF OrderFailures < MaxOrderFailures
    THEN {[kind |-> "err", data |-> Null], [kind |-> "none", data |-> Null]}
    ELSE {}

OrderTotals == {Null, Num(MaxOrderPages)}

OrderedSetsOutcomes ==
    FailedOutcomes
    \cup {[kind |-> "value", data |-> SetsResponse(cards, NamedSet, total)] :
            cards \in {<<>>, <<Unpriced(page)>>}, total \in OrderTotals}

OrderedSearchOutcomes ==
    FailedOutcomes
    \cup {[kind |-> "value", data |-> SearchResponse(results, total)] :
            results \in {<<>>, <<Priced(page, 2)>>}, total \in OrderTotals}

OrderInit ==
    /\ set_code = Id(5) /\ set_id \in {Null, Id(6)}
    /\ fpc = "fetch"
    /\ ident_idx = 1 /\ page = 1 /\ attempt = 0 /\ last_exception = FALSE
    /\ all_cards = <<>> /\ set_info = EmptyDict /\ all_results = <<>>
    /\ requests = <<>> /\ responses = <<>>
    /\ returned = Return(<<>>) /\ pass = 1
    /\ first = [ran |-> FALSE, lookup |-> {}, df |-> <<>>, requests |-> 0]
    /\ PriceIdle /\ EnrichIdle /\ RestIdle

OrderedSetsAttempt ==
    /\ fpc = "fetch"
    /\ \E o \in OrderedSetsOutcomes :
          SetsStep(o) /\ responses' = Append(responses, o)

OrderedSearchAttempt ==
    /\ fpc = "search"
    /\ \E o \in OrderedSearchOutcomes :
          SearchStep(o) /\ responses' = Append(responses, o)

OrderNext == OrderedSetsAttempt \/ OrderedSearchAttempt

SpecOrder == OrderInit /\ [][OrderNext]_vars

----------------------------------------------------------------------------
(* retry_api_call on its own: func() is called once per step, with any     *)
(* outcome; the step runs the loop body and, after the last iteration, the *)
(* lines after the loop.                                                   *)

\* largest max_retries drawn
MaxRetries == 3
\* largest base_delay drawn
MaxBaseDelay == 2

\* the exceptions func() may raise
Exc(n) == [t |-> "exc", v |-> n]
Exceptions == {Exc(1), Exc(2)}

\* what func() may return: None, falsy values, truthy values
FuncValues == {Null, EmptyDict, List(<<>>), One("cards", List(<<>>)), List(<<Num(1)>>)}

FuncOutcomes ==
    {[kind |-> "raise", v |-> e] : e \in Exceptions}
    \cup {[kind |-> "return", v |-> x] : x \in FuncValues}

RECURSIVE Pow2(_)
Pow2(n) == IF n = 0 THEN 1 ELSE 2 * Pow2(n - 1)

RetryState ==
    [r_attempt |-> r_attempt, r_last_exception |-> r_last_exception,
     r_sleeps |-> r_sleeps, r_outcome |-> r_outcome, rpc |-> rpc]

\* lines 79-81, after the loop
AfterLoop(st) ==
    IF st.r_last_exception # Null
    THEN [st EXCEPT !.rpc = "done",
                    !.r_outcome = [kind |-> "raise", v |-> st.r_last_exception]]
    ELSE [st EXCEPT !.rpc = "done", !.r_outcome = [kind |-> "return", v |-> Null]]

\* range(max_retries): the next iteration, or the lines after the loop
Iterate(st) ==
    IF st.r_attempt + 1 < r_max_retries
    THEN [st EXCEPT !.r_attempt = st.r_attempt + 1]
    ELSE AfterLoop([st EXCEPT !.r_attempt = st.r_attempt + 1])

\* the loop that gives up at the first exception
attempt_first_raise(o) ==
    IF o.kind = "return" /\ o.v # Null
    THEN [RetryState EXCEPT !.rpc = "done", !.r_outcome = o,
                            !.r_attempt = r_attempt + 1]
    ELSE IF o.kind = "return" THEN Iterate(RetryState)
    ELSE AfterLoop([RetryState EXCEPT !.r_last_exception = o.v,
                                      !.r_attempt = r_attempt + 1])

\* the loop that prefers a captured exception to a later value
attempt_stale_raise(o) ==
    IF o.kind = "return" /\ o.v # Null /\ r_last_exception = Null
    THEN [RetryState EXCEPT !.rpc = "done", !.r_outcome = o,
                            !.r_attempt = r_attempt + 1]
    ELSE IF o.kind = "return" /\ o.v # Null
    THEN AfterLoop([RetryState EXCEPT !.r_attempt = r_attempt + 1])
    ELSE IF o.kind = "return" THEN Iterate(RetryState)
    ELSE Iterate([RetryState EXCEPT
            !.r_last_exception = o.v,
            !.r_sleeps = IF r_attempt < r_max_retries - 1
                         THEN Append(r_sleeps, [after |-> r_attempt + 1,
                                                delay |-> r_base_delay * Pow2(r_attempt)])
                         ELSE r_sleeps])

\* the loop that forgets the exception of an attempt when the next one
\* returns None
attempt_swallow(o) ==
    IF o.kind = "return" /\ o.v # Null
    THEN [RetryState EXCEPT !.rpc = "done", !.r_outcome = o,
                            !.r_attempt = r_attempt + 1]
    ELSE IF o.kind = "return"
    THEN Iterate([RetryState EXCEPT !.r_last_exception = Null])
    ELSE Iterate([RetryState EXCEPT
            !.r_last_exception = o.v,
            !.r_sleeps = IF r_attempt < r_max_retries - 1
                         THEN Append(r_sleeps, [after |-> r_attempt + 1,
                                                delay |-> r_base_delay * Pow2(r_attempt)])
                         ELSE r_sleeps])

\* lines 68-78 for one iteration whose func() call had the outcome o
retry_attempt(o) ==
    IF o.kind = "return" /\ o.v # Null
    THEN [RetryState EXCEPT !.rpc = "done", !.r_outcome = o,
                            !.r_attempt = r_attempt + 1]
    ELSE IF o.kind = "return" THEN Iterate(RetryState)
    ELSE Iterate([RetryState EXCEPT
            !.r_last_exception = o.v,
            !.r_sleeps = IF r_attempt < r_max_retries - 1
                         THEN Append(r_sleeps, [after |-> r_attempt + 1,
                                                delay |-> r_base_delay * Pow2(r_attempt)])
                         ELSE r_sleeps])

RetryInit ==
    /\ r_max_retries \in 0..MaxRetries
    /\ r_base_delay \in 1..MaxBaseDelay
    /\ r_attempt = 0 /\ r_last_exception = Null
    /\ r_calls = <<>> /\ r_sleeps = <<>>
    /\ rpc = IF r_max_retries = 0 THEN "done" ELSE "loop"
    /\ r_outcome = IF r_max_retries = 0 THEN [kind |-> "return", v |-> Null]
                   ELSE [kind |-> "none"]
    /\ PriceIdle /\ EnrichIdle /\ FetchIdle /\ ChatIdle /\ CacheIdle

\* one iteration of the loop of retry_api_call
RetryAttempt ==
    /\ rpc = "loop"
    /\ \E o \in FuncOutcomes :
          /\ r_calls' = Append(r_calls, o)
          /\ \E n \in {retry_attempt(o)} :
                /\ r_attempt' = n.r_attempt
                /\ r_last_exception' = n.r_last_exception
                /\ r_sleeps' = n.r_sleeps
                /\ r_outcome' = n.r_outcome
                /\ rpc' = n.rpc
    /\ UNCHANGED <<r_max_retries, r_base_delay, priceVars, enrichVars, fetchVars,
                   chatVars, cacheVars>>

RetryNext == RetryAttempt

SpecRetry == RetryInit /\ [][RetryNext]_vars

----------------------------------------------------------------------------
(* ai_chat: the classification of a free-text request by a language model. *)
(* The text of the model is a sequence of tokens: an opening brace, a      *)
(* closing brace, prose, or one complete "key": "value" member of a JSON   *)
(* object.                                                                 *)

\* longest model text drawn
MaxText == 5

Token(kind, key, value) == [kind |-> kind, key |-> key, value |-> value]
LBrace == Token("{", "", "")
RBrace == Token("}", "", "")
Prose == Token("prose", "", "")
Member(key, value) == Token("member", key, value)
Tokens ==
    {LBrace, RBrace, Prose, Member("request_type", "pokemon"),
     Member("request_type", "unknown"), Member("search_term", "pikachu")}

\* a Python str / a JSON string
Text(str) == [t |-> "text", v |-> str]

\* the text of the model, as a Python str
Content(tokens) == [t |-> "content", v |-> tokens]

\* what a step gives: a value, or an exception of the class named
Value(x) == [ok |-> TRUE, val |-> x, exc |-> ""]
Throws(name) == [ok |-> FALSE, val |-> Null, exc |-> name]

\* the body of a response of the chat-completion endpoint
Body(shape, content) == [shape |-> shape, content |-> content]
BodyShapes == {"not_json", "no_choices", "empty_choices", "null_content"}

\* what requests.post gave: it raised, or a response with a status code
PostRaised(name) == [kind |-> "raise", status |-> 0, exc |-> name, body |-> Body("none", <<>>)]
Http(status, body) == [kind |-> "http", status |-> status, exc |-> "", body |-> body]
Statuses == {200, 429, 500}

\* response.json().get("choices", [{}])[0].get("message", {}).get("content", "")
response_data(body) ==
    CASE body.shape = "not_json" -> Throws("JSONDecodeError")
      [] body.shape = "no_choices" -> Value(Content(<<>>))
      [] body.shape = "empty_choices" -> Throws("IndexError")
      [] body.shape = "null_content" -> Value(Null)
      [] OTHER -> Value(Content(body.content))

\* re.search(r'({[\s\S]*})', text): from the first opening brace to the last
\* closing brace after it; <<>> when there is no match
Braces(text, kind) == {i \in 1..Len(text) : text[i].kind = kind}
MinOf(S) == CHOOSE i \in S : \A j \in S : i <= j
MaxOf(S) == CHOOSE i \in S : \A j \in S : i >= j
HasMatch(text) ==
    /\ Braces(text, "{") # {} /\ Braces(text, "}") # {}
    /\ MinOf(Braces(text, "{")) < MaxOf(Braces(text, "}"))
json_match(text) ==
    IF HasMatch(text)
    THEN SubSeq(text, MinOf(Braces(text, "{")), MaxOf(Braces(text, "}")))
    ELSE <<>>

\* json.loads of a text that opens and closes with a brace: an object when
\* everything between the braces is a member, the last member of a key
\* giving its value
json_loads(group) ==
    LET inner == SubSeq(group, 2, Len(group) - 1)
        keys == {inner[i].key : i \in 1..Len(inner)}
        last(k) == MaxOf({i \in 1..Len(inner) : inner[i].key = k})
    IN  IF \A i \in 1..Len(inner) : inner[i].kind = "member"
        THEN Value(Dict([k \in keys |-> Text(inner[last(k)].value)]))
        ELSE Throws("JSONDecodeError")

COULD_NOT_INTERPRET == Text("Could not interpret your request. Please try again.")
Taxonomy == {"pokemon", "set", "total_cost", "top_cards"}

\* lines 788-797: the validation of the model's text
validate(text) ==
    IF text.t = "null" THEN Throws("TypeError")
    ELSE IF ~HasMatch(text.v) THEN Value(COULD_NOT_INTERPRET)
    ELSE LET parsed == json_loads(json_match(text.v))
         IN  IF ~parsed.ok THEN parsed
             ELSE IF \/ "request_type" \notin DOMAIN parsed.val.v
                     \/ "search_term" \notin DOMAIN parsed.val.v
             THEN Value(COULD_NOT_INTERPRET)
             ELSE IF parsed.val.v["request_type"].v \notin Taxonomy
             THEN Value(COULD_NOT_INTERPRET)
             ELSE parsed

\* the try block of ai_chat, lines 765-797
ai_chat_try(resp) ==
    IF resp.kind = "raise" THEN Throws(resp.exc)
    ELSE IF resp.status # 200
    THEN Value(Text("Error: " \o ToString(resp.status) \o ", " \o "body"))
    ELSE IF ~response_data(resp.body).ok THEN response_data(resp.body)
    ELSE validate(response_data(resp.body).val)

\* ai_chat(prompt), given whether the API key is set and what the endpoint
\* answered; `except Exception as e` turns every exception into a string
ai_chat(key, resp) ==
    IF ~key THEN Text("Chatbot API key not found.")
    ELSE IF ai_chat_try(resp).ok THEN ai_chat_try(resp).val
    ELSE Text("An error occurred: " \o ai_chat_try(resp).exc)

ChatInit ==
    /\ cpc = "call" /\ chat_result = Null
    /\ chat_key \in BOOLEAN
    /\ \/ chat_response = PostRaised("ConnectionError")
       \/ \E st \in Statuses : \E sh \in BodyShapes :
             chat_response = Http(st, Body(sh, <<>>))
       \/ \E n \in 0..MaxText : \E text \in [1..n -> Tokens] :
             chat_response = Http(200, Body("content", text))
    /\ PriceIdle /\ EnrichIdle /\ FetchIdle /\ RetryIdle /\ CacheIdle

\* one call of ai_chat
AiChat ==
    /\ cpc = "call"
    /\ chat_result' = ai_chat(chat_key, chat_response)
    /\ cpc' = "done"
    /\ UNCHANGED <<chat_key, chat_response, priceVars, enrichVars, fetchVars,
                   retryVars, cacheVars>>

ChatNext == AiChat

SpecChat == ChatInit /\ [][ChatNext]_vars

----------------------------------------------------------------------------
(* The cached fetches: fetch_all_sets and fetch_card_image under           *)
(* st.cache_data(ttl=...). The decorator runs the function when the key    *)
(* has no live entry and stores whatever the function returns, None        *)
(* included; an exception would store nothing, but both functions catch    *)
(* every exception and return None.                                        *)

\* the clock stops here
MaxClock == 90000
\* @st.cache_data(ttl=7200) of fetch_all_sets
TTL_SETS == 7200
\* @st.cache_data(ttl=86400) of fetch_card_image
TTL_IMAGE == 86400
\* retry_api_call(func, max_retries=3, ...)
DefaultMaxRetries == 3
\* the steps of the clock: an hour, half a day
Ticks == {3600, 43200}

CacheKeys == {"fetch_all_sets", "fetch_card_image"}
TTL(key) == IF key = "fetch_all_sets" THEN TTL_SETS ELSE TTL_IMAGE

\* values the cached functions return besides None
Frame(rows) == [t |-> "frame", v |-> rows]
Bytes(n) == [t |-> "bytes", v |-> n]

\* a cache entry: the value stored and when; `failed` remembers, for the
\* properties, whether the fetch that stored it had failed
NoEntry == [has |-> FALSE, value |-> Null, at |-> 0, failed |-> FALSE]
Entry(value, at, failed) == [has |-> TRUE, value |-> value, at |-> at, failed |-> failed]
Live(key, t) == cache[key].has /\ t - cache[key].at < TTL(key)

\* what a run of a function body gave: the value returned, the HTTP
\* requests issued, and whether the fetch failed
Run(value, issued, failed) == [value |-> value, issued |-> issued, failed |-> failed]

\* retry_api_call(func) over the outcomes outs of the successive calls of
\* func, from call i on: the outcome and the number of calls made
RECURSIVE retry_api_call(_, _, _)
retry_api_call(outs, i, last_exc) ==
    IF i > Len(outs)
    THEN (IF last_exc # Null THEN [kind |-> "raise", v |-> last_exc, calls |-> Len(outs)]
          ELSE [kind |-> "return", v |-> Null, calls |-> Len(outs)])
    ELSE IF outs[i].kind = "return" /\ outs[i].v # Null
    THEN [kind |-> "return", v |-> outs[i].v, calls |-> i]
    ELSE IF outs[i].kind = "return" THEN retry_api_call(outs, i + 1, last_exc)
    ELSE retry_api_call(outs, i + 1, outs[i].v)

\* _fetch of fetch_all_sets: requests.get or raise_for_status raises, or
\* data.get("data", []) is returned
SetsListOutcomes ==
    {[kind |-> "raise", v |-> Exc(1)]}
    \cup {[kind |-> "return", v |-> x] : x \in {Null, List(<<>>), List(<<Id(1)>>)}}

\* the body of fetch_all_sets, lines 90-107
fetch_all_sets(outs) ==
    LET sets_list == retry_api_call(outs, 1, Null)
    IN  IF sets_list.kind = "return" /\ Truthy(sets_list.v)
        THEN Run(Frame(sets_list.v.v), sets_list.calls, FALSE)
        ELSE Run(Null, sets_list.calls,
                 sets_list.kind = "raise" \/ sets_list.v = Null)

\* requests.get of fetch_card_image: it raises, or answers with a status
ImageOutcomes ==
    {[kind |-> "raise", status |-> 0], [kind |-> "http", status |-> 200],
     [kind |-> "http", status |-> 404], [kind |-> "http", status |-> 500]}

\* the body of fetch_card_image, lines 362-373
fetch_card_image(o) ==
    IF o.kind = "http" /\ o.status = 200 THEN Run(Bytes(1), 1, FALSE)
    ELSE Run(Null, 1, TRUE)

\* a call of a function under st.cache_data: answered from a live entry,
\* else the body runs and what it returns is stored
Cached(key, run) ==
    IF Live(key, now)
    THEN /\ c_last' = [fn |-> key, hit |-> TRUE, issued |-> 0,
                       failed |-> cache[key].failed, value |-> cache[key].value,
                       at |-> now]
         /\ UNCHANGED cache
    ELSE /\ c_last' = [fn |-> key, hit |-> FALSE, issued |-> run.issued,
                       failed |-> run.failed, value |-> run.value,
                       at |-> now]
         /\ cache' = [cache EXCEPT ![key] = Entry(run.value, now, run.failed)]

CacheInit ==
    /\ cache = [key \in CacheKeys |-> NoEntry] /\ now = 0 /\ c_last = NoCall
    /\ PriceIdle /\ EnrichIdle /\ FetchIdle /\ RetryIdle /\ ChatIdle

FetchAllSets ==
    /\ \E outs \in [1..DefaultMaxRetries -> SetsListOutcomes] :
          Cached("fetch_all_sets", fetch_all_sets(outs))
    /\ UNCHANGED <<now, priceVars, enrichVars, fetchVars, retryVars, chatVars>>

FetchCardImage ==
    /\ \E o \in ImageOutcomes : Cached("fetch_card_image", fetch_card_image(o))
    /\ UNCHANGED <<now, priceVars, enrichVars, fetchVars, retryVars, chatVars>>

\* time passes; entries past their time-to-live are dropped
Tick ==
    /\ \E d \in Ticks : now + d <= MaxClock /\ now' = now + d
    /\ cache' = [key \in CacheKeys |-> IF Live(key, now') THEN cache[key] ELSE NoEntry]
    /\ UNCHANGED <<c_last, priceVars, enrichVars, fetchVars, retryVars, chatVars>>

CacheNext == FetchAllSets \/ FetchCardImage \/ Tick

SpecCache == CacheInit /\ [][CacheNext]_vars

----------------------------------------------------------------------------
(* What the claims say about price extraction, stated without the code's  *)
(* loops: the field a record's price comes from.                           *)

\* a price field is present: numeric and strictly greater than zero
Present(x) == x.t = "big" \/ (x.t \in {"num", "numstr"} /\ x.v > 0)

HasBig(x) == x.t = "big"

\* the function returned the value of field x (Null: it returned 0.0)
Returned(x) ==
    \/ x.t \in {"num", "numstr"} /\ result = Ret(x.v)
    \/ x.t = "null" /\ result = Ret(0)

\* positions (entry i, priority j) of the present fields of a list of entries
PresentAt(l) ==
    {p \in (1..Len(l)) \X (1..Len(PRICE_KEYS)) :
        IsDict(l[p[1]]) /\ Present(Get(l[p[1]], PRICE_KEYS[p[2]]))}

\* entry-major order: earlier entry first, then higher-priority field
EntryMajor(p, q) == p[1] < q[1] \/ (p[1] = q[1] /\ p[2] <= q[2])

FirstInList(l) ==
    IF PresentAt(l) = {} THEN Null
    ELSE LET p == CHOOSE p \in PresentAt(l) : \A q \in PresentAt(l) : EntryMajor(p, q)
         IN  Get(l[p[1]], PRICE_KEYS[p[2]])

\* the entries of each nested source, <<>> when the source has no such shape
TcgEntries(c) ==
    LET x == Get(c, "TCG_Prices") IN IF IsList(x) THEN x.v ELSE <<>>

TcgplayerEntries(c) ==
    LET x == Get(c, "tcgplayer")
        prices == IF IsDict(x) THEN Get(x, "prices") ELSE Null
    IN  IF IsDict(prices) THEN <<prices>>
        ELSE IF IsList(prices) THEN prices.v ELSE <<>>

CardmarketEntries(c) ==
    LET x == Get(c, "cardmarket")
        prices == IF IsDict(x) THEN Get(x, "prices") ELSE Null
    IN  IF IsList(prices) THEN prices.v ELSE <<>>

TopPresentAt(c) ==
    {i \in 1..Len(c.order) : ContainsPrice(c.order[i]) /\ Present(Get(c, c.order[i]))}

FirstTopLevel(c) ==
    IF TopPresentAt(c) = {} THEN Null
    ELSE Get(c, c.order[CHOOSE i \in TopPresentAt(c) : \A j \in TopPresentAt(c) : i <= j])

\* the field the record's price comes from, Null when no source holds one
FirstPresentField(c) ==
    IF FirstInList(TcgEntries(c)) # Null THEN FirstInList(TcgEntries(c))
    ELSE IF FirstInList(TcgplayerEntries(c)) # Null THEN FirstInList(TcgplayerEntries(c))
    ELSE IF FirstInList(CardmarketEntries(c)) # Null THEN FirstInList(CardmarketEntries(c))
    ELSE FirstTopLevel(c)

\* some field the extraction may read is an int beyond the float range
ReadsBig(c) ==
    \/ \E l \in {TcgEntries(c), TcgplayerEntries(c), CardmarketEntries(c)} :
         \E i \in 1..Len(l) : IsDict(l[i]) /\ \E k \in DOMAIN l[i].v : HasBig(l[i].v[k])
    \/ \E i \in 1..Len(c.order) : HasBig(Get(c, c.order[i]))

----------------------------------------------------------------------------
(* Claims C1-C4: extract_price_from_card *)

\* C1: for every card record the call returns, and returns a number >= 0.0:
\* it never raises.
C1_NeverRaises == ppc = "done" => (~result.raised /\ result.val >= 0)

\* C2: the result is the first present price in the order TCG_Prices,
\* tcgplayer.prices, cardmarket.prices, top-level 'price' fields, and 0.0
\* only when no source holds a present price.
C2_SourceOrder ==
    (ppc = "done" /\ IsDict(card)) => Returned(FirstPresentField(card))

\* C3: one presence rule (numeric and > 0) decides for nested and for
\* top-level price fields alike whether the record has a price: the result
\* is > 0 exactly when a field is present under that rule.
C3_OnePresenceRule ==
    (ppc = "done" /\ IsDict(card) /\ ~ReadsBig(card)) =>
        (result.val > 0 <=> FirstPresentField(card) # Null)

\* C4: when the record's price comes from a sequence of mappings, it is the
\* first present value in entry-major order (entries in sequence order, the
\* fields of an entry in PRICE_KEYS order).
C4_EntryMajor ==
    (ppc = "done" /\ IsDict(card) /\ Len(TcgEntries(card)) > 0) =>
        \/ Returned(FirstInList(TcgEntries(card)))
        \/ FirstInList(TcgEntries(card)) = Null

\* The order of C2 and C4 on the records whose numbers all convert to float
\* and whose top-level price fields are numbers (not C1's or C3's cases).
TopLevelStrings(c) ==
    \E i \in 1..Len(c.order) : ContainsPrice(c.order[i]) /\ Get(c, c.order[i]).t = "numstr"

OrderOnConvertibleRecords ==
    (ppc = "done" /\ IsDict(card) /\ ~ReadsBig(card) /\ ~TopLevelStrings(card)) =>
        Returned(FirstPresentField(card))

----------------------------------------------------------------------------
(* Claims C7-C9: _enrich_prices_via_search *)

\* a substructure of the record holds a present price
TcgplayerPresent(c) == FirstInList(TcgplayerEntries(c)) # Null
CardmarketPresent(c) == FirstInList(CardmarketEntries(c)) # Null
CarriesNestedPrice(c) ==
    FirstInList(TcgEntries(c)) # Null \/ TcgplayerPresent(c) \/ CardmarketPresent(c)

\* the call got as far as building the substructure lookups
LookupsBuilt ==
    /\ search_results # <<>>
    /\ ~LookupRaises(search_results)
    /\ DOMAIN price_lookup(search_results) # {}

\* C7: a record that already carries a present nested price is returned
\* with every field as it was passed in, whatever the search found.
C7_NonDestructive ==
    epc = "done" =>
        /\ Len(enriched) = Len(df)
        /\ \A i \in 1..Len(df) : CarriesNestedPrice(df[i]) => enriched[i] = df[i]

\* C8: a lookup substructure replaces the record's own exactly when the
\* record's own holds no present price and the lookup has the record's id.
C8_ReplacedExactlyWhenLacking ==
    (epc = "done" /\ LookupsBuilt) =>
        \A i \in 1..Len(df) :
            LET id == Get(df[i], "id")
                tcg == tcg_lookup(search_results)
                cm == cm_lookup(search_results)
            IN  /\ Len(enriched) = Len(df)
                /\ Get(enriched[i], "tcgplayer") =
                     IF ~TcgplayerPresent(df[i]) /\ id \in DOMAIN tcg
                     THEN tcg[id] ELSE Get(df[i], "tcgplayer")
                /\ Get(enriched[i], "cardmarket") =
                     IF ~CardmarketPresent(df[i]) /\ id \in DOMAIN cm
                     THEN cm[id] ELSE Get(df[i], "cardmarket")

\* C9: the batch returned has the same number of records, in the same
\* order, each with the id it had.
C9_SameRecordsSameIds ==
    epc = "done" =>
        /\ Len(enriched) = Len(df)
        /\ \A i \in 1..Len(df) : Get(enriched[i], "id") = Get(df[i], "id")

\* a batch of two ids of which the search priced one, and the merge changed it
C9_Witness ==
    /\ epc = "done"
    /\ Len(df) = 2
    /\ Get(df[1], "id") # Get(df[2], "id")
    /\ LookupsBuilt
    /\ enriched # df
    /\ \E i \in 1..2 : Get(df[i], "id") \notin DOMAIN price_lookup(search_results)

----------------------------------------------------------------------------
(* Claims C5, C6, C10: the enrichment trigger of fetch_set_cards *)

\* the /search requests issued so far
Searches == {i \in 1..Len(requests) : requests[i].ep = "search"}

\* fetch_set_cards returned a non-empty batch
ReturnedBatch == fpc = "done" /\ ~returned.raised /\ returned.df # <<>>

\* the substructures of the returned records are those of the records given
SameSubstructures(out, in) ==
    /\ Len(out) = Len(in)
    /\ \A i \in 1..Len(in) :
          /\ Get(out[i], "id") = Get(in[i], "id")
          /\ Get(out[i], "tcgplayer") = Get(in[i], "tcgplayer")
          /\ Get(out[i], "cardmarket") = Get(in[i], "cardmarket")

\* C5: a fetched batch in which at least one record has an extracted price
\* > 0 is never enriched: no /search request is issued, and the batch is
\* returned with its tcgplayer and cardmarket fields as fetched.
C5_NoSearchWhenPriced ==
    /\ (pass = 1 /\ Searches # {}) => SumPrices(all_cards) = 0
    /\ (pass = 1 /\ ReturnedBatch /\ SumPrices(all_cards) > 0) =>
            /\ Searches = {}
            /\ SameSubstructures(returned.df, all_cards)

\* a partial-price batch of a named set was returned
C5_Witness ==
    /\ pass = 1 /\ ReturnedBatch
    /\ Len(all_cards) = 2
    /\ extract_price_from_card(all_cards[1]).val = 0
    /\ extract_price_from_card(all_cards[2]).val > 0
    /\ Truthy(Get(set_info, "name"))
    /\ Searches = {}

\* C6 as stated: every non-empty fetched batch whose records all have the
\* extracted price 0.0 has had at least one /search request issued by the
\* time it is returned.
C6_AllZeroSearches ==
    (pass = 1 /\ ReturnedBatch /\ SumPrices(all_cards) = 0) => Searches # {}

\* C6 as amended: every non-empty fetched batch whose records all have the
\* extracted price 0.0, and whose set block as last fetched has a non-empty
\* name, has had at least one /search request issued by the time it is
\* returned.
C6_NamedAllZeroSearches ==
    (pass = 1 /\ ReturnedBatch /\ SumPrices(all_cards) = 0
              /\ Truthy(Get(set_info, "name"))) => Searches # {}

\* an all-zero batch of two records of a named set was returned after a search
C6_Witness ==
    /\ pass = 1 /\ ReturnedBatch
    /\ Len(all_cards) = 2
    /\ SumPrices(all_cards) = 0
    /\ Truthy(Get(set_info, "name"))
    /\ Searches # {}

\* pass 1 enriched an all-zero batch with a non-empty price lookup, and the
\* trigger check has been applied to its output
SecondPass == pass = 2 /\ first.ran /\ first.lookup # {}

\* the second pass issued no request and returned the records it was given
NoOp ==
    /\ fpc = "done"
    /\ Len(requests) = first.requests
    /\ ~returned.raised
    /\ DropPrice(returned.df) = first.df

\* C10 as stated: after an enrichment pass that completed with a non-empty
\* price lookup, applying the trigger check and the enrichment to its output
\* changes no record and issues no further /search request.
C10_Idempotent == SecondPass => NoOp

\* C10 as amended: after an enrichment pass that completed with a non-empty
\* price lookup, applying the trigger check and the enrichment to its output
\* changes no fetched field of any record and issues no further /search
\* request whenever the extracted prices of the enriched batch sum to more
\* than 0.
C10_IdempotentOncePriced ==
    (SecondPass /\ SumPrices(first.df) > 0) => NoOp

\* pass 1 priced one record of two from the search, pass 2 did nothing
C10_Witness ==
    /\ SecondPass
    /\ Len(first.df) = 2
    /\ extract_price_from_card(first.df[1]).val > 0
    /\ extract_price_from_card(first.df[2]).val = 0
    /\ NoOp

----------------------------------------------------------------------------
(* Claims C11, C16-C20: the pagination loops, read from the request log *)

\* the attempts retry_api_call made for the page that request i asks for
Attempts(i) ==
    {j \in 1..Len(requests) :
        /\ requests[j].ep = requests[i].ep
        /\ requests[j].key = requests[i].key
        /\ requests[j].page = requests[i].page}

MaxRetriesOf(ep) == IF ep = "sets" THEN SetsMaxRetries ELSE SearchMaxRetries

\* retry_api_call raised for the page of request i: every attempt allowed was
\* made, none returned a value, and one raised
PageFailed(i) ==
    /\ Cardinality(Attempts(i)) = MaxRetriesOf(requests[i].ep)
    /\ \A j \in Attempts(i) : responses[j].kind # "value"
    /\ \E j \in Attempts(i) : responses[j].kind = "err"

\* the records of the responses to requests[from..] of endpoint ep, field k
RECURSIVE Got(_, _, _)
Got(ep, k, from) ==
    IF from > Len(requests) THEN <<>>
    ELSE (IF requests[from].ep = ep /\ responses[from].kind = "value"
          THEN ListOf(responses[from].data, k) ELSE <<>>)
         \o Got(ep, k, from + 1)

SearchGot == Got("search", "results", 1)

SearchFailed == \E i \in Searches : PageFailed(i)

NonePriced(rs) == \A i \in 1..Len(rs) : extract_price_from_card(rs[i]).val = 0

\* C11: when the search fails after its retries, returns no results, or
\* returns no result with an extractable price > 0, the enrichment gives back
\* the batch it was given, every record unchanged, and raises nothing.
C11_FailedSearchLeavesBatch ==
    (fpc = "done" /\ Searches # {}
        /\ (SearchFailed \/ SearchGot = <<>> \/ NonePriced(SearchGot))) =>
        /\ ~returned.raised
        /\ returned.df = DropPrice(all_cards)

\* page 1 of the search priced a record of the batch, page 2 failed after
\* its retries, and the batch came back as it was
C11_Witness ==
    /\ fpc = "done" /\ SearchFailed
    /\ \E i \in 1..Len(SearchGot) :
          /\ extract_price_from_card(SearchGot[i]).val > 0
          /\ \E j \in 1..Len(all_cards) :
                Get(all_cards[j], "id") = Get(SearchGot[i], "id")
    /\ returned.df = DropPrice(all_cards)

----------------------------------------------------------------------------
(* Claims C12-C15: retry_api_call *)

\* func() returned a value other than None
Success(o) == o.kind = "return" /\ o.v # Null

\* func() returned a value that is neither None nor empty
NonEmptySuccess(o) == o.kind = "return" /\ Truthy(o.v)

Calls == 1..Len(r_calls)

\* the last call of func() that raised
LastRaise == CHOOSE i \in Calls :
                /\ r_calls[i].kind = "raise"
                /\ \A j \in Calls : r_calls[j].kind = "raise" => j <= i

\* C12: func() is called at most max_retries times, never again after the
\* first call that succeeds, and the value of that call is what
\* retry_api_call returns, also when earlier calls raised.
C12_AtMostMaxRetries ==
    /\ Len(r_calls) <= r_max_retries
    /\ \A i \in Calls :
          Success(r_calls[i]) =>
              /\ i = Len(r_calls)
              /\ rpc = "done"
              /\ r_outcome = r_calls[i]

\* two calls raised, the third returned a value, which is what came back
C12_Witness ==
    /\ rpc = "done" /\ Len(r_calls) = 3
    /\ r_calls[1].kind = "raise" /\ r_calls[2].kind = "raise"
    /\ NonEmptySuccess(r_calls[3])
    /\ r_outcome = r_calls[3]

\* C13 as stated: only a non-null, non-empty return value is a success; a
\* call that raises or returns a falsy value is followed by another call
\* whenever fewer than max_retries calls have been made.
C13_FalsyRetried ==
    rpc = "done" =>
        \/ Len(r_calls) = r_max_retries
        \/ NonEmptySuccess(r_calls[Len(r_calls)])

\* C13 as amended: every return value other than None, an empty list or
\* mapping included, is a success that ends the call with that value; a
\* call that raises or returns None is followed by another call whenever
\* fewer than max_retries calls have been made.
C13_NoneOrRaiseRetried ==
    /\ rpc = "done" =>
          \/ Len(r_calls) = r_max_retries
          \/ Success(r_calls[Len(r_calls)])
    /\ \A i \in Calls :
          (r_calls[i].kind = "return" /\ r_calls[i].v # Null /\ ~Truthy(r_calls[i].v)) =>
              (i = Len(r_calls) /\ r_outcome = r_calls[i])

\* a raise, then None, then an empty list that is returned as the result
C13_Witness ==
    /\ rpc = "done" /\ Len(r_calls) = 3
    /\ r_calls[1].kind = "raise"
    /\ r_calls[2] = [kind |-> "return", v |-> Null]
    /\ r_calls[3] = [kind |-> "return", v |-> List(<<>>)]
    /\ r_outcome = r_calls[3]

\* C14: before every call k >= 2 that is made there is exactly one wait, of
\* base_delay * 2^(k-2), whatever made call k-1 be retried; no wait follows
\* the last call allowed.
C14_BackoffBeforeEveryCall ==
    /\ \A k \in 2..Len(r_calls) :
          /\ \E i \in 1..Len(r_sleeps) :
                r_sleeps[i] = [after |-> k - 1, delay |-> r_base_delay * Pow2(k - 2)]
          /\ \A i, j \in 1..Len(r_sleeps) :
                (r_sleeps[i].after = k - 1 /\ r_sleeps[j].after = k - 1) => i = j
    /\ \A i \in 1..Len(r_sleeps) : r_sleeps[i].after < r_max_retries

\* the waits of the calls that raised are those of the formula
BackoffAfterRaise ==
    /\ \A k \in 2..Len(r_calls) :
          r_calls[k - 1].kind = "raise" =>
              \E i \in 1..Len(r_sleeps) :
                  r_sleeps[i] = [after |-> k - 1, delay |-> r_base_delay * Pow2(k - 2)]
    /\ \A i \in 1..Len(r_sleeps) :
          /\ r_sleeps[i].after < r_max_retries
          /\ r_calls[r_sleeps[i].after].kind = "raise"

\* C15: when max_retries calls were made and none succeeded, the last
\* exception captured is raised if any call raised, and None is returned
\* only if none did.
C15_ExhaustionRaisesLast ==
    (rpc = "done" /\ Len(r_calls) = r_max_retries
                  /\ \A i \in Calls : ~Success(r_calls[i])) =>
        IF \E i \in Calls : r_calls[i].kind = "raise"
        THEN r_outcome = r_calls[LastRaise]
        ELSE r_outcome = [kind |-> "return", v |-> Null]

\* two different exceptions, then None: the second exception is raised
C15_Witness ==
    /\ rpc = "done" /\ Len(r_calls) = 3
    /\ r_calls[1] = [kind |-> "raise", v |-> Exc(1)]
    /\ r_calls[2] = [kind |-> "raise", v |-> Exc(2)]
    /\ r_calls[3] = [kind |-> "return", v |-> Null]
    /\ r_outcome = [kind |-> "raise", v |-> Exc(2)]

----------------------------------------------------------------------------
(* Claims C16-C20 *)

\* the records, under field k, of the value responses to requests[from..to]
\* that asked endpoint ep for key
RECURSIVE GotFor(_, _, _, _, _)
GotFor(ep, key, k, from, to) ==
    IF from > to THEN <<>>
    ELSE (IF /\ requests[from].ep = ep /\ requests[from].key = key
             /\ responses[from].kind = "value"
          THEN ListOf(responses[from].data, k) ELSE <<>>)
         \o GotFor(ep, key, k, from + 1, to)

\* the records fetch_set_cards had accumulated for the identifier of request
\* i when it issued request i
KeptBefore(i) == GotFor("sets", requests[i].key, "cards", 1, i - 1)

SetsRequests == {i \in 1..Len(requests) : requests[i].ep = "sets"}

\* the first records of out are the records kept, by id
StartsWith(out, kept) ==
    /\ Len(out) >= Len(kept)
    /\ \A j \in 1..Len(kept) : Get(out[j], "id") = Get(kept[j], "id")

\* C16: a page fetch that fails after its retries ends the pagination:
\* fetch_set_cards returns the records of the pages fetched before it,
\* search_cards hands the results of the pages fetched before it to the
\* enrichment, and neither raises.
C16_PartialResults ==
    (fpc = "done" /\ Len(responses) = Len(requests)) =>
        /\ ~returned.raised
        /\ \A i \in SetsRequests :
              PageFailed(i) => StartsWith(returned.df, KeptBefore(i))
        /\ SearchFailed =>
              returned.df = DropPrice(enrich_prices_via_search(all_cards, SearchGot))

\* the part of C16 the code keeps: nothing is raised to the caller, and a
\* page for which retry_api_call returned None ends the pagination with the
\* records accumulated
NeverRaisesToCaller ==
    (fpc = "done" /\ Len(responses) = Len(requests)) => ~returned.raised

\* request j comes after request i and asks the same endpoint for the same
\* identifier or query
LaterSame(i, j) ==
    /\ i < j
    /\ requests[j].ep = requests[i].ep
    /\ requests[j].key = requests[i].key

Logged == 1..Len(responses)

RecordsField(ep) == IF ep = "sets" THEN "cards" ELSE "results"
LimitOf(ep) == IF ep = "sets" THEN SetsLimit ELSE SearchLimit

\* request i was answered with a page of fewer records than it asked for
ShortPage(i) ==
    /\ responses[i].kind = "value"
    /\ Len(ListOf(responses[i].data, RecordsField(requests[i].ep))) < LimitOf(requests[i].ep)

\* pagination.total_pages as the response to request i declares it, Null
\* when it declares none
Declared(i) ==
    IF IsDict(Get(responses[i].data, "pagination"))
    THEN Get(Get(responses[i].data, "pagination"), "total_pages")
    ELSE Null

EmptyFirstPage(i) ==
    /\ requests[i].ep = "sets" /\ requests[i].page = 1
    /\ responses[i].kind = "value"
    /\ ListOf(responses[i].data, "cards") = <<>>

\* C18 as stated: when the first page of a set is empty the result is empty
\* and no HTTP call follows that response.
C18_EmptyFirstPageEnds ==
    \A i \in Logged :
        EmptyFirstPage(i) =>
            /\ i = Len(requests)
            /\ fpc = "done" /\ returned = Return(<<>>)

\* C18 as amended: when the first page of a set is empty no further page of
\* that identifier is requested; if the identifier is the last one to try
\* the result is empty and no HTTP call follows, otherwise the next call is
\* page 1 of the fallback identifier.
C18_EmptyFirstPageEndsIdentifier ==
    \A i \in Logged :
        EmptyFirstPage(i) =>
            /\ \A j \in Logged : i < j => requests[j].key # requests[i].key
            /\ IF requests[i].key = identifiers[Len(identifiers)]
               THEN /\ i = Len(requests)
                    /\ fpc = "done" /\ returned = Return(<<>>)
               ELSE i < Len(requests) =>
                    /\ requests[i + 1].key = identifiers[Len(identifiers)]
                    /\ requests[i + 1].page = 1

\* the only identifier answered with an empty first page that declares two
\* pages, and the fetch ended there with an empty result
C18_Witness ==
    /\ Len(identifiers) = 1 /\ Len(requests) = 1 /\ Len(responses) = 1
    /\ EmptyFirstPage(1)
    /\ Declared(1) = Num(2)
    /\ fpc = "done" /\ returned = Return(<<>>)

\* the requests that ask the endpoint of request i for its identifier or query
SameKey(i) ==
    {j \in Logged : requests[j].ep = requests[i].ep /\ requests[j].key = requests[i].key}

\* every page asked of the endpoint and key of request i was fetched, every
\* page response declares the total_pages T >= 1 that request i was answered
\* with, and page 1 holds a record
SteadyTotal(i) ==
    /\ responses[i].kind = "value"
    /\ Declared(i) # Null /\ Declared(i).t = "num" /\ Declared(i).v >= 1
    /\ \A j \in SameKey(i) :
          /\ responses[j].kind = "value" => Declared(j) = Declared(i)
          /\ \E k \in Attempts(j) : responses[k].kind = "value"
          /\ (requests[j].page = 1 /\ responses[j].kind = "value") =>
                ListOf(responses[j].data, RecordsField(requests[j].ep)) # <<>>

Min(a, b) == IF a <= b THEN a ELSE b

\* the last page that should be asked of the endpoint of request i
LastPage(i) ==
    IF requests[i].ep = "sets" THEN Declared(i).v
    ELSE Min(Declared(i).v, SearchMaxPages)

\* C19: when every page response declares the same total_pages T >= 1,
\* every page fetch succeeds and page 1 is not empty, fetch_set_cards
\* requests exactly the pages 1..T of the identifier, and search_cards
\* exactly the pages 1..min(T, max_pages), however many records the pages
\* hold.
C19_ExactlyDeclaredPages ==
    fpc = "done" =>
        \A i \in Logged :
            SteadyTotal(i) =>
                {requests[j].page : j \in SameKey(i)} = 1..LastPage(i)

\* a search whose pages declare more than max_pages pages, one of them
\* empty, ended after page max_pages
C19_Witness ==
    /\ fpc = "done"
    /\ \E i \in Logged :
          /\ requests[i].ep = "search" /\ SteadyTotal(i)
          /\ Declared(i).v > SearchMaxPages
          /\ {requests[j].page : j \in SameKey(i)} = 1..SearchMaxPages
          /\ \E j \in SameKey(i) : ListOf(responses[j].data, "results") = <<>>

\* the set block of a page response, {} when it has none
SetBlockOf(data) == IF IsDict(Get(data, "set")) THEN Get(data, "set") ELSE EmptyDict

\* for every record of the value responses to requests[from..] for the
\* identifier key, in order: the set name and set code of the response the
\* record came in
RECURSIVE Origins(_, _)
Origins(key, from) ==
    IF from > Len(responses) THEN <<>>
    ELSE (IF /\ requests[from].ep = "sets" /\ requests[from].key = key
             /\ responses[from].kind = "value"
          THEN [n \in 1..Len(ListOf(responses[from].data, "cards")) |->
                  [name |-> IF Get(SetBlockOf(responses[from].data), "name") = Null
                            THEN EmptyStr
                            ELSE Get(SetBlockOf(responses[from].data), "name"),
                   code |-> IF Get(SetBlockOf(responses[from].data), "set_code") = Null
                            THEN key
                            ELSE Get(SetBlockOf(responses[from].data), "set_code")]]
          ELSE <<>>)
         \o Origins(key, from + 1)

\* C20: every record of a non-empty result of fetch_set_cards carries
\* set_name and set_code_val as the response of its page gave them,
\* set_code_val being the identifier requested when the set block has no
\* set_code.
C20_RecordsCarrySetMetadata ==
    (fpc = "done" /\ ~returned.raised /\ returned.df # <<>>) =>
        LET origins == Origins(identifiers[ident_idx], 1)
        IN  /\ Len(returned.df) = Len(origins)
            /\ \A n \in 1..Len(origins) :
                  /\ "set_name" \in DOMAIN returned.df[n].v
                  /\ "set_code_val" \in DOMAIN returned.df[n].v
                  /\ Get(returned.df[n], "set_name") = origins[n].name
                  /\ Get(returned.df[n], "set_code_val") = origins[n].code

\* two records from two pages, the first page with a named set block, the
\* second with none
C20_Witness ==
    /\ fpc = "done" /\ Len(returned.df) = 2
    /\ Get(returned.df[1], "set_name") = Id(9)
    /\ Get(returned.df[1], "set_code_val") = Id(8)
    /\ Get(returned.df[2], "set_name") = EmptyStr
    /\ Get(returned.df[2], "set_code_val") = identifiers[ident_idx]

----------------------------------------------------------------------------
(* Claim C21: the classifier's answer to a text of the model *)

\* the text the model returned with status 200
ModelText == chat_response.body.content
GotText ==
    /\ cpc = "done" /\ chat_key /\ chat_response.kind = "http"
    /\ chat_response.status = 200 /\ chat_response.body.shape = "content"

\* the text between the first opening brace and the last closing brace
Between(text) ==
    SubSeq(text, MinOf(Braces(text, "{")) + 1, MaxOf(Braces(text, "}")) - 1)
NoObject(text) ==
    \A i, j \in 1..Len(text) : ~(i < j /\ text[i] = LBrace /\ text[j] = RBrace)
Unparseable(text) ==
    ~NoObject(text) /\ \E i \in 1..Len(Between(text)) : Between(text)[i].kind # "member"
HasKey(text, key) ==
    \E i \in 1..Len(Between(text)) : Between(text)[i].key = key
\* the value the object gives a key: that of its last member of that key
ValueOf(text, key) ==
    Between(text)[MaxOf({i \in 1..Len(Between(text)) : Between(text)[i].key = key})].value
Violation(text) ==
    \/ NoObject(text)
    \/ Unparseable(text)
    \/ ~HasKey(text, "request_type") \/ ~HasKey(text, "search_term")
    \/ ValueOf(text, "request_type") \notin Taxonomy

\* C21: for a response with status 200 ai_chat does not raise, every
\* violation in the model's text (no object, unparseable text between the
\* braces, a missing key, an out-of-taxonomy request_type) gives the one
\* fixed error string, and only a valid text gives the parsed mapping.
C21_ViolationsGiveFixedString ==
    GotText =>
        IF Violation(ModelText)
        THEN chat_result = COULD_NOT_INTERPRET
        ELSE /\ chat_result.t = "dict"
             /\ chat_result.v["request_type"] = Text(ValueOf(ModelText, "request_type"))
             /\ chat_result.v["search_term"] = Text(ValueOf(ModelText, "search_term"))

\* the part of C21 that holds: an unparseable text aside, a violation gives
\* the fixed string and a valid text the mapping; the result is always a
\* string or a mapping
C21_ExceptUnparseable ==
    /\ cpc = "done" => chat_result.t \in {"text", "dict"}
    /\ (GotText /\ ~Unparseable(ModelText)) => C21_ViolationsGiveFixedString
    /\ (GotText /\ chat_result.t = "dict") => ~Violation(ModelText)

----------------------------------------------------------------------------
(* Claim C22: what the cache holds after a failed fetch *)

\* C22: a cache entry is created only by a successful fetch: after a fetch
\* that failed no entry exists for the key, and no call is answered from
\* the cache with the value of a failed fetch.
C22_FailedFetchNotCached ==
    /\ \A key \in CacheKeys : cache[key].has => ~cache[key].failed
    /\ (c_last # NoCall /\ c_last.hit) => ~c_last.failed

\* the part of C22 that holds: a successful fetch is stored and answers the
\* calls of its time-to-live window without a request
SuccessCached ==
    (c_last # NoCall /\ ~c_last.failed /\ c_last.at = now) =>
        /\ cache[c_last.fn].has /\ cache[c_last.fn].value = c_last.value
        /\ now - cache[c_last.fn].at < TTL(c_last.fn)
        /\ c_last.hit => c_last.issued = 0

----------------------------------------------------------------------------
(* Claim C23: the prices of the lookup reach the records *)

\* C23: after the enrichment has completed, every record of the batch whose
\* id is in the price lookup has the lookup's price as its extracted price,
\* whichever price shape the search result used.
C23_BackfilledForEveryPricedId ==
    (epc = "done" /\ LookupsBuilt) =>
        /\ Len(enriched) = Len(df)
        /\ \A i \in 1..Len(df) :
              Get(df[i], "id") \in DOMAIN price_lookup(search_results) =>
                  extract_price_from_card(enriched[i]) =
                      Ret(price_lookup(search_results)[Get(df[i], "id")])

\* the search result of an id priced through its tcgplayer or cardmarket
\* substructure only, one result for the id
PricedBySubstructure(id) ==
    /\ Cardinality({j \in WithId(search_results) : Get(search_results[j], "id") = id}) = 1
    /\ \A j \in WithId(search_results) :
          Get(search_results[j], "id") = id =>
              /\ Get(search_results[j], "TCG_Prices") = Null
              /\ Get(search_results[j], "price") = Null

\* the part of C23 that holds: a record with no price container of its own
\* gets the price of a search result priced through its substructures
BackfilledFromSubstructures ==
    (epc = "done" /\ LookupsBuilt) =>
        \A i \in 1..Len(df) :
            (/\ Get(df[i], "id") \in DOMAIN price_lookup(search_results)
             /\ Get(df[i], "tcgplayer") = Null /\ Get(df[i], "cardmarket") = Null
             /\ PricedBySubstructure(Get(df[i], "id"))) =>
                  extract_price_from_card(enriched[i]) =
                      Ret(price_lookup(search_results)[Get(df[i], "id")])

----------------------------------------------------------------------------
(* Claim C24: the order of the identifiers *)

\* request i was answered with a page that holds cards
YieldedCards(i) ==
    /\ responses[i].kind = "value"
    /\ ListOf(responses[i].data, "cards") # <<>>

\* request i asks /sets for the fallback identifier set_id
ForSetId(i) ==
    /\ requests[i].ep = "sets" /\ Truthy(set_code)
    /\ requests[i].key # set_code

\* C24: set_id is requested only after the set_code attempt ended with no
\* cards, never once set_code has yielded cards; it is not tried when it
\* equals set_code; with both identifiers empty nothing is requested and
\* the result is empty.
C24_SetIdOnlyAfterNoCards ==
    /\ \A i \in 1..Len(requests) :
          ForSetId(i) =>
              /\ \E j \in 1..(i - 1) : ~ForSetId(j)
              /\ \A j \in 1..(i - 1) : ~ForSetId(j) => ~YieldedCards(j)
    /\ (Truthy(set_code) /\ set_id = set_code) =>
          Cardinality({i \in 1..Len(requests) :
                         requests[i].ep = "sets" /\ requests[i].page = 1})
              <= SetsMaxRetries
    /\ (~Truthy(set_code) /\ ~Truthy(set_id)) =>
          (requests = <<>> /\ fpc = "done" /\ returned = Return(<<>>))

\* the part of C24 that holds: the first request for set_id follows a
\* set_code page of which an attempt raised, or a page 1 that gave no cards;
\* the other two parts as stated
FallbackAfterFailureOrEmpty ==
    /\ \A i \in 1..Len(requests) :
          (ForSetId(i) /\ (i = 1 \/ ~ForSetId(IF i = 1 THEN 1 ELSE i - 1))) =>
              /\ i > 1
              /\ \/ \E j \in 1..(i - 1) :
                       /\ requests[j].page = requests[i - 1].page
                       /\ responses[j].kind = "err"
                 \/ requests[i - 1].page = 1 /\ ~YieldedCards(i - 1)
    /\ (Truthy(set_code) /\ set_id = set_code) =>
          Cardinality({i \in 1..Len(requests) :
                         requests[i].ep = "sets" /\ requests[i].page = 1})
              <= SetsMaxRetries
    /\ (~Truthy(set_code) /\ ~Truthy(set_id)) =>
          (requests = <<>> /\ fpc = "done" /\ returned = Return(<<>>))

----------------------------------------------------------------------------
(* Claim C25: the cost of one reconciliation *)

SearchRequests == {i \in 1..Len(requests) : requests[i].ep = "search"}
SearchPagesAsked == {requests[i].page : i \in SearchRequests}

\* C25: one reconciliation requests at most max_pages = 10 distinct /search
\* pages, each at most 3 times, whatever the server answers.
C25_AtMostMaxPages ==
    /\ SearchPagesAsked \subseteq 1..SearchMaxPages
    /\ Cardinality(SearchPagesAsked) <= SearchMaxPages
    /\ \A p \in SearchPagesAsked :
          Cardinality({i \in SearchRequests : requests[i].page = p}) <= SearchMaxRetries

\* a search that ended after all ten pages, the server declaring more, one
\* page having taken three attempts
C25_Witness ==
    /\ fpc = "done"
    /\ SearchPagesAsked = 1..SearchMaxPages
    /\ \E p \in SearchPagesAsked :
          Cardinality({i \in SearchRequests : requests[i].page = p}) = SearchMaxRetries
    /\ Len(returned.df) > 0

----------------------------------------------------------------------------
(* Claim C26: fetch_set_cards returns *)

\* C26: fetch_set_cards eventually returns, whatever the responses are and
\* whatever total_pages they declare.
C26_EventuallyReturns == <>(fpc = "done")

\* the latest response was to a /sets request and declared a page after the
\* one it answered
MoreDeclared ==
    /\ fpc = "fetch" /\ requests # <<>>
    /\ requests[1].ep = "sets" /\ responses[1].kind = "value"
    /\ Truthy(responses[1].data)
    /\ TotalPages(responses[1].data) > requests[1].page

\* C26, amended: fetch_set_cards returns unless the /sets responses declare
\* again and again a page after the one they answer.
C26_ReturnsUnlessMoreDeclared == <>(fpc = "done") \/ []<>MoreDeclared

\* a call that returned records after its last /sets request, for a page
\* after the first, was answered
C26_Witness ==
    /\ fpc = "done" /\ returned.df # <<>>
    /\ requests # <<>> /\ requests[1].ep = "sets" /\ requests[1].page = MaxPage

----------------------------------------------------------------------------
(* Claim C27: the order of the pages and of the records accumulated *)

\* the requests made for the identifier or query of request i, in order
GroupOf(i) ==
    {j \in 1..Len(requests) :
        requests[j].ep = requests[i].ep /\ requests[j].key = requests[i].key}
Earlier(i) == {j \in GroupOf(i) : j < i}

Ids(cards) == [n \in 1..Len(cards) |-> Get(cards[n], "id")]

====
